---------------------------- MODULE Spec2Model ----------------------------
(***************************************************************************)
(* A model of the IKEv1 state machine of pluto (programs/pluto/ikev1.c):   *)
(* the microcode table, the packet demultiplexer process_v1_packet, the    *)
(* fragment reassembler, the payload decoder process_packet_tail, the      *)
(* duplicate controller ikev1_duplicate and the transition dispatcher      *)
(* complete_v1_state_transition.                                           *)
(*                                                                         *)
(* The event loop is single threaded: the whole processing of one inbound  *)
(* datagram (demultiplex, decode, handler, dispatch) is one step.          *)
(***************************************************************************)
EXTENDS Integers, Sequences, FiniteSets, TLC

(***************************************************************************)
(* Bounds of the model.                                                    *)
(***************************************************************************)
MaxSerial == 3
  \* state objects ever created in one run (so_serial_t 1..MaxSerial)
MaxMsgid == 2
  \* message ids on the wire: 0 (phase 1) and 1..MaxMsgid
MaxFrag == 3
  \* highest fragment number offered by the peer in the reassembly runs
MaxMalformed == 2
  \* PAYLOAD_MALFORMED notifications counted on one SA
MaxPending == 2
  \* Quick Mode negotiations queued on one ISAKMP SA
MaxConns == 3
  \* connections in the connection table, instances included
MaxDepth == 3
  \* re-entries of ikev1_decode_peer_id the model follows before it gives up

MaxChain == 3
  \* longest payload chain offered to the payload decoder runs

(***************************************************************************)
(* Program constants.                                                      *)
(***************************************************************************)
OAKLEY_PRESHARED_KEY == 1
OAKLEY_DSS_SIG == 2
OAKLEY_RSA_SIG == 3
OAKLEY_RSA_ENC == 4
OAKLEY_RSA_REVISED_MODE == 5
OAKLEY_AUTH_ROOF == 12
MAXIMUM_v1_ACCEPTED_DUPLICATES == 2
MAX_IKE_FRAGMENTS == 16
v1_MAINMODE_MSGID == 0
MAXIMUM_MALFORMED_NOTIFY == 16
SOS_NOBODY == 0

NULL == "NULL"

(***************************************************************************)
(* State Microcode Flags.                                                  *)
(* A flag set (lset_t) is kept as two parts: the Oakley auth values the    *)
(* entry applies to (bits 0..OAKLEY_AUTH_ROOF-1) and the named misc flags. *)
(***************************************************************************)
SMF_ALL_AUTH == 0 .. (OAKLEY_AUTH_ROOF - 1)
SMF_PSK_AUTH == {OAKLEY_PRESHARED_KEY}
SMF_DS_AUTH == {OAKLEY_DSS_SIG, OAKLEY_RSA_SIG}
SMF_PKE_AUTH == {OAKLEY_RSA_ENC}
SMF_RPKE_AUTH == {OAKLEY_RSA_REVISED_MODE}

SMF_INITIATOR == "SMF_INITIATOR"
SMF_FIRST_ENCRYPTED_INPUT == "SMF_FIRST_ENCRYPTED_INPUT"
SMF_INPUT_ENCRYPTED == "SMF_INPUT_ENCRYPTED"
SMF_OUTPUT_ENCRYPTED == "SMF_OUTPUT_ENCRYPTED"
SMF_RETRANSMIT_ON_DUPLICATE == "SMF_RETRANSMIT_ON_DUPLICATE"
SMF_REPLY == "SMF_REPLY"
SMF_RELEASE_PENDING_P2 == "SMF_RELEASE_PENDING_P2"
SMF_ENCRYPTED == {SMF_INPUT_ENCRYPTED, SMF_OUTPUT_ENCRYPTED}

(***************************************************************************)
(* enum state_kind, in the order of the enumeration.                       *)
(***************************************************************************)
StateOrder ==
  << "STATE_MAIN_R0", "STATE_MAIN_I1", "STATE_MAIN_R1", "STATE_MAIN_I2",
     "STATE_MAIN_R2", "STATE_MAIN_I3", "STATE_MAIN_R3", "STATE_MAIN_I4",
     "STATE_AGGR_R0", "STATE_AGGR_I1", "STATE_AGGR_R1", "STATE_AGGR_I2",
     "STATE_AGGR_R2",
     "STATE_QUICK_R0", "STATE_QUICK_I1", "STATE_QUICK_R1", "STATE_QUICK_I2",
     "STATE_QUICK_R2",
     "STATE_INFO", "STATE_INFO_PROTECTED",
     "STATE_XAUTH_R0", "STATE_XAUTH_R1",
     "STATE_MODE_CFG_R0", "STATE_MODE_CFG_R1", "STATE_MODE_CFG_R2",
     "STATE_MODE_CFG_I1", "STATE_XAUTH_I0", "STATE_XAUTH_I1" >>

STATE_UNDEFINED == "STATE_UNDEFINED"
STATE_IKEv1_ROOF == "STATE_IKEv1_ROOF"

StateKinds == { StateOrder[i] : i \in 1 .. Len(StateOrder) }

StateNr(kind) == CHOOSE i \in 1 .. Len(StateOrder) : StateOrder[i] = kind

InRange(kind, lo, hi) ==
  /\ kind \in StateKinds
  /\ StateNr(lo) <= StateNr(kind)
  /\ StateNr(kind) <= StateNr(hi)

IS_PHASE1(kind) == InRange(kind, "STATE_MAIN_R0", "STATE_AGGR_R2")

IS_PHASE15(kind) == InRange(kind, "STATE_XAUTH_R0", "STATE_XAUTH_I1")

IS_QUICK(kind) == InRange(kind, "STATE_QUICK_R0", "STATE_QUICK_R2")

IS_ISAKMP_ENCRYPTED(kind) ==
  \/ InRange(kind, "STATE_MAIN_R2", "STATE_MAIN_I4")
  \/ InRange(kind, "STATE_AGGR_R1", "STATE_AGGR_R2")
  \/ InRange(kind, "STATE_QUICK_R0", "STATE_QUICK_R2")
  \/ kind = "STATE_INFO_PROTECTED"
  \/ InRange(kind, "STATE_XAUTH_R0", "STATE_XAUTH_I1")

IS_ISAKMP_AUTHENTICATED(kind) ==
  /\ kind \in StateKinds
  /\ StateNr("STATE_MAIN_R3") <= StateNr(kind)
  /\ kind # "STATE_AGGR_R0"
  /\ kind # "STATE_AGGR_I1"

IS_ISAKMP_SA_ESTABLISHED(kind) ==
  kind \in { "STATE_MAIN_R3", "STATE_MAIN_I4", "STATE_AGGR_I2",
             "STATE_AGGR_R2", "STATE_XAUTH_R0", "STATE_XAUTH_R1",
             "STATE_MODE_CFG_R0", "STATE_MODE_CFG_R1", "STATE_MODE_CFG_R2",
             "STATE_MODE_CFG_I1", "STATE_XAUTH_I0", "STATE_XAUTH_I1" }

IS_MODE_CFG_ESTABLISHED(kind) == kind = "STATE_MODE_CFG_R2"

IS_IPSEC_SA_ESTABLISHED_KIND(kind) ==
  kind \in { "STATE_QUICK_I2", "STATE_QUICK_R2" }

(***************************************************************************)
(* Event kinds (enum event_type) used by the dispatcher.                   *)
(***************************************************************************)
EVENT_NULL == "EVENT_NULL"
EVENT_RETRANSMIT == "EVENT_RETRANSMIT"
EVENT_SA_REPLACE == "EVENT_SA_REPLACE"
EVENT_SO_DISCARD == "EVENT_SO_DISCARD"
EVENT_SA_EXPIRE == "EVENT_SA_EXPIRE"
EVENT_v1_SA_REPLACE_IF_USED == "EVENT_v1_SA_REPLACE_IF_USED"
EVENT_v1_SEND_XAUTH == "EVENT_v1_SEND_XAUTH"

V1_HASH_NONE == "V1_HASH_NONE"
V1_HASH_1 == "V1_HASH_1"
V1_HASH_2 == "V1_HASH_2"
V1_HASH_3 == "V1_HASH_3"

(***************************************************************************)
(* Payload types (ISAKMP_NEXT_x).  Known are the types v1_payload_desc     *)
(* has a descriptor for; ID, the two draft NAT types and SAK have none and *)
(* are special-cased by the decoder; "PRIVATE" stands for every number     *)
(* without a descriptor (e.g. 250).                                        *)
(***************************************************************************)
DescPayloads ==
  { "SA", "P", "T", "KE", "HASH", "SIG", "NONCE", "N", "D", "VID", "CR",
    "CERT", "MCFG_ATTR", "NATD_RFC", "NATOA_RFC" }

PayloadTypes ==
  DescPayloads \cup
    { "ID", "NATD_DRAFTS", "NATOA_DRAFTS", "SAK", "PRIVATE" }

AlwaysAccepted == { "VID", "N", "D", "CR", "CERT" }

(***************************************************************************)
(* struct state_v1_microcode and v1_state_microcode_table, in table order. *)
(***************************************************************************)
Microcode(state, next_state, auth, flags, req_payloads, opt_payloads, timeout_event, processor, hash_type) ==
  [ state |-> state, next_state |-> next_state, auth |-> auth,
    flags |-> flags, req_payloads |-> req_payloads,
    opt_payloads |-> opt_payloads, timeout_event |-> timeout_event,
    processor |-> processor, hash_type |-> hash_type ]

v1_state_microcode_table ==
  <<
    Microcode("STATE_MAIN_R0", "STATE_MAIN_R1",
      SMF_ALL_AUTH,
      {SMF_REPLY},
      {"SA"}, {"VID", "CR"},
      EVENT_SO_DISCARD, "main_inI1_outR1", V1_HASH_NONE),
    Microcode("STATE_MAIN_I1", "STATE_MAIN_I2",
      SMF_ALL_AUTH,
      {SMF_INITIATOR, SMF_REPLY},
      {"SA"}, {"VID", "CR"},
      EVENT_RETRANSMIT, "main_inR1_outI2", V1_HASH_NONE),
    Microcode("STATE_MAIN_R1", "STATE_MAIN_R2",
      SMF_PSK_AUTH \cup SMF_DS_AUTH,
      {SMF_REPLY, SMF_RETRANSMIT_ON_DUPLICATE},
      {"KE", "NONCE"}, {"VID", "CR", "NATD_RFC"},
      EVENT_RETRANSMIT, "main_inI2_outR2", V1_HASH_NONE),
    Microcode("STATE_MAIN_R1", STATE_UNDEFINED,
      SMF_PKE_AUTH,
      {SMF_REPLY, SMF_RETRANSMIT_ON_DUPLICATE},
      {"KE", "ID", "NONCE"}, {"VID", "CR", "HASH"},
      EVENT_RETRANSMIT, "unexpected", V1_HASH_NONE),
    Microcode("STATE_MAIN_R1", STATE_UNDEFINED,
      SMF_RPKE_AUTH,
      {SMF_REPLY, SMF_RETRANSMIT_ON_DUPLICATE},
      {"NONCE", "KE", "ID"}, {"VID", "CR", "HASH", "CERT"},
      EVENT_RETRANSMIT, "unexpected", V1_HASH_NONE),
    Microcode("STATE_MAIN_I2", "STATE_MAIN_I3",
      SMF_PSK_AUTH \cup SMF_DS_AUTH,
      {SMF_INITIATOR, SMF_OUTPUT_ENCRYPTED, SMF_REPLY},
      {"KE", "NONCE"}, {"VID", "CR", "NATD_RFC"},
      EVENT_RETRANSMIT, "main_inR2_outI3", V1_HASH_NONE),
    Microcode("STATE_MAIN_I2", STATE_UNDEFINED,
      SMF_PKE_AUTH,
      {SMF_INITIATOR, SMF_OUTPUT_ENCRYPTED, SMF_REPLY},
      {"KE", "ID", "NONCE"}, {"VID", "CR"},
      EVENT_RETRANSMIT, "unexpected", V1_HASH_NONE),
    Microcode("STATE_MAIN_I2", STATE_UNDEFINED,
      SMF_ALL_AUTH,
      {SMF_INITIATOR, SMF_OUTPUT_ENCRYPTED, SMF_REPLY},
      {"NONCE", "KE", "ID"}, {"VID", "CR"},
      EVENT_RETRANSMIT, "unexpected", V1_HASH_NONE),
    Microcode("STATE_MAIN_R2", "STATE_MAIN_R3",
      SMF_PSK_AUTH,
      {SMF_FIRST_ENCRYPTED_INPUT, SMF_INPUT_ENCRYPTED, SMF_OUTPUT_ENCRYPTED, SMF_REPLY, SMF_RELEASE_PENDING_P2},
      {"ID", "HASH"}, {"VID", "CR"},
      EVENT_SA_REPLACE, "main_inI3_outR3", V1_HASH_NONE),
    Microcode("STATE_MAIN_R2", "STATE_MAIN_R3",
      SMF_DS_AUTH,
      {SMF_FIRST_ENCRYPTED_INPUT, SMF_INPUT_ENCRYPTED, SMF_OUTPUT_ENCRYPTED, SMF_REPLY, SMF_RELEASE_PENDING_P2},
      {"ID", "SIG"}, {"VID", "CR", "CERT"},
      EVENT_SA_REPLACE, "main_inI3_outR3", V1_HASH_NONE),
    Microcode("STATE_MAIN_R2", STATE_UNDEFINED,
      SMF_PKE_AUTH \cup SMF_RPKE_AUTH,
      {SMF_FIRST_ENCRYPTED_INPUT, SMF_INPUT_ENCRYPTED, SMF_OUTPUT_ENCRYPTED, SMF_REPLY, SMF_RELEASE_PENDING_P2},
      {"HASH"}, {"VID", "CR"},
      EVENT_SA_REPLACE, "unexpected", V1_HASH_NONE),
    Microcode("STATE_MAIN_I3", "STATE_MAIN_I4",
      SMF_PSK_AUTH,
      {SMF_INITIATOR, SMF_FIRST_ENCRYPTED_INPUT, SMF_INPUT_ENCRYPTED, SMF_OUTPUT_ENCRYPTED, SMF_RELEASE_PENDING_P2},
      {"ID", "HASH"}, {"VID", "CR"},
      EVENT_SA_REPLACE, "main_inR3", V1_HASH_NONE),
    Microcode("STATE_MAIN_I3", "STATE_MAIN_I4",
      SMF_DS_AUTH,
      {SMF_INITIATOR, SMF_FIRST_ENCRYPTED_INPUT, SMF_INPUT_ENCRYPTED, SMF_OUTPUT_ENCRYPTED, SMF_RELEASE_PENDING_P2},
      {"ID", "SIG"}, {"VID", "CR", "CERT"},
      EVENT_SA_REPLACE, "main_inR3", V1_HASH_NONE),
    Microcode("STATE_MAIN_I3", STATE_UNDEFINED,
      SMF_PKE_AUTH \cup SMF_RPKE_AUTH,
      {SMF_INITIATOR, SMF_FIRST_ENCRYPTED_INPUT, SMF_INPUT_ENCRYPTED, SMF_OUTPUT_ENCRYPTED, SMF_RELEASE_PENDING_P2},
      {"HASH"}, {"VID", "CR"},
      EVENT_SA_REPLACE, "unexpected", V1_HASH_NONE),
    Microcode("STATE_MAIN_R3", STATE_UNDEFINED,
      SMF_ALL_AUTH,
      {SMF_INPUT_ENCRYPTED, SMF_OUTPUT_ENCRYPTED, SMF_RETRANSMIT_ON_DUPLICATE},
      {}, {},
      EVENT_NULL, "unexpected", V1_HASH_NONE),
    Microcode("STATE_MAIN_I4", STATE_UNDEFINED,
      SMF_ALL_AUTH,
      {SMF_INITIATOR, SMF_INPUT_ENCRYPTED, SMF_OUTPUT_ENCRYPTED},
      {}, {},
      EVENT_NULL, "unexpected", V1_HASH_NONE),
    Microcode("STATE_AGGR_R0", "STATE_AGGR_R1",
      SMF_PSK_AUTH \cup SMF_DS_AUTH,
      {SMF_REPLY},
      {"SA", "KE", "NONCE", "ID"}, {"VID", "NATD_RFC"},
      EVENT_SO_DISCARD, "aggr_inI1_outR1", V1_HASH_NONE),
    Microcode("STATE_AGGR_I1", "STATE_AGGR_I2",
      SMF_PSK_AUTH,
      {SMF_INITIATOR, SMF_OUTPUT_ENCRYPTED, SMF_REPLY, SMF_RELEASE_PENDING_P2},
      {"SA", "KE", "NONCE", "ID", "HASH"}, {"VID", "NATD_RFC"},
      EVENT_SA_REPLACE, "aggr_inR1_outI2", V1_HASH_NONE),
    Microcode("STATE_AGGR_I1", "STATE_AGGR_I2",
      SMF_DS_AUTH,
      {SMF_INITIATOR, SMF_OUTPUT_ENCRYPTED, SMF_REPLY, SMF_RELEASE_PENDING_P2},
      {"SA", "KE", "NONCE", "ID", "SIG"}, {"VID", "NATD_RFC"},
      EVENT_SA_REPLACE, "aggr_inR1_outI2", V1_HASH_NONE),
    Microcode("STATE_AGGR_R1", "STATE_AGGR_R2",
      SMF_PSK_AUTH,
      {SMF_FIRST_ENCRYPTED_INPUT, SMF_OUTPUT_ENCRYPTED, SMF_RELEASE_PENDING_P2, SMF_RETRANSMIT_ON_DUPLICATE},
      {"HASH"}, {"VID", "NATD_RFC"},
      EVENT_SA_REPLACE, "aggr_inI2", V1_HASH_NONE),
    Microcode("STATE_AGGR_R1", "STATE_AGGR_R2",
      SMF_DS_AUTH,
      {SMF_FIRST_ENCRYPTED_INPUT, SMF_OUTPUT_ENCRYPTED, SMF_RELEASE_PENDING_P2, SMF_RETRANSMIT_ON_DUPLICATE},
      {"SIG"}, {"VID", "NATD_RFC"},
      EVENT_SA_REPLACE, "aggr_inI2", V1_HASH_NONE),
    Microcode("STATE_AGGR_I2", STATE_UNDEFINED,
      SMF_ALL_AUTH,
      {SMF_INITIATOR, SMF_RETRANSMIT_ON_DUPLICATE},
      {}, {},
      EVENT_NULL, "unexpected", V1_HASH_NONE),
    Microcode("STATE_AGGR_R2", STATE_UNDEFINED,
      SMF_ALL_AUTH,
      {},
      {}, {},
      EVENT_NULL, "unexpected", V1_HASH_NONE),
    Microcode("STATE_QUICK_R0", "STATE_QUICK_R1",
      SMF_ALL_AUTH,
      {SMF_INPUT_ENCRYPTED, SMF_OUTPUT_ENCRYPTED, SMF_REPLY},
      {"HASH", "SA", "NONCE"}, {"KE", "ID", "NATOA_RFC"},
      EVENT_RETRANSMIT, "quick_inI1_outR1", V1_HASH_1),
    Microcode("STATE_QUICK_I1", "STATE_QUICK_I2",
      SMF_ALL_AUTH,
      {SMF_INITIATOR, SMF_INPUT_ENCRYPTED, SMF_OUTPUT_ENCRYPTED, SMF_REPLY},
      {"HASH", "SA", "NONCE"}, {"KE", "ID", "NATOA_RFC"},
      EVENT_SA_REPLACE, "quick_inR1_outI2", V1_HASH_2),
    Microcode("STATE_QUICK_R1", "STATE_QUICK_R2",
      SMF_ALL_AUTH,
      {SMF_INPUT_ENCRYPTED, SMF_OUTPUT_ENCRYPTED},
      {"HASH"}, {},
      EVENT_SA_REPLACE, "quick_inI2", V1_HASH_3),
    Microcode("STATE_QUICK_I2", STATE_UNDEFINED,
      SMF_ALL_AUTH,
      {SMF_INITIATOR, SMF_INPUT_ENCRYPTED, SMF_OUTPUT_ENCRYPTED, SMF_RETRANSMIT_ON_DUPLICATE},
      {}, {},
      EVENT_NULL, "unexpected", V1_HASH_NONE),
    Microcode("STATE_QUICK_R2", STATE_UNDEFINED,
      SMF_ALL_AUTH,
      {SMF_INPUT_ENCRYPTED, SMF_OUTPUT_ENCRYPTED},
      {}, {},
      EVENT_NULL, "unexpected", V1_HASH_NONE),
    Microcode("STATE_INFO", STATE_UNDEFINED,
      SMF_ALL_AUTH,
      {},
      {}, {},
      EVENT_NULL, "informational", V1_HASH_NONE),
    Microcode("STATE_INFO_PROTECTED", STATE_UNDEFINED,
      SMF_ALL_AUTH,
      {SMF_INPUT_ENCRYPTED, SMF_OUTPUT_ENCRYPTED},
      {"HASH"}, {},
      EVENT_NULL, "informational", V1_HASH_1),
    Microcode("STATE_XAUTH_R0", "STATE_XAUTH_R1",
      SMF_ALL_AUTH,
      {SMF_INPUT_ENCRYPTED, SMF_OUTPUT_ENCRYPTED},
      {"MCFG_ATTR", "HASH"}, {"VID"},
      EVENT_NULL, "xauth_inR0", V1_HASH_1),
    Microcode("STATE_XAUTH_R1", "STATE_MAIN_R3",
      SMF_ALL_AUTH,
      {SMF_INPUT_ENCRYPTED, SMF_OUTPUT_ENCRYPTED},
      {"MCFG_ATTR", "HASH"}, {"VID"},
      EVENT_SA_REPLACE, "xauth_inR1", V1_HASH_1),
    Microcode("STATE_MODE_CFG_R0", "STATE_MODE_CFG_R1",
      SMF_ALL_AUTH,
      {SMF_INPUT_ENCRYPTED, SMF_OUTPUT_ENCRYPTED, SMF_REPLY},
      {"MCFG_ATTR", "HASH"}, {"VID"},
      EVENT_SA_REPLACE, "modecfg_inR0", V1_HASH_1),
    Microcode("STATE_MODE_CFG_R1", "STATE_MODE_CFG_R2",
      SMF_ALL_AUTH,
      {SMF_INPUT_ENCRYPTED, SMF_OUTPUT_ENCRYPTED},
      {"MCFG_ATTR", "HASH"}, {"VID"},
      EVENT_SA_REPLACE, "modecfg_inR1", V1_HASH_1),
    Microcode("STATE_MODE_CFG_R2", STATE_UNDEFINED,
      SMF_ALL_AUTH,
      {SMF_INPUT_ENCRYPTED, SMF_OUTPUT_ENCRYPTED},
      {}, {},
      EVENT_NULL, "unexpected", V1_HASH_NONE),
    Microcode("STATE_MODE_CFG_I1", "STATE_MAIN_I4",
      SMF_ALL_AUTH,
      {SMF_INPUT_ENCRYPTED, SMF_OUTPUT_ENCRYPTED, SMF_RELEASE_PENDING_P2},
      {"MCFG_ATTR", "HASH"}, {"VID"},
      EVENT_SA_REPLACE, "modecfg_inR1", V1_HASH_1),
    Microcode("STATE_XAUTH_I0", "STATE_XAUTH_I1",
      SMF_ALL_AUTH,
      {SMF_INPUT_ENCRYPTED, SMF_OUTPUT_ENCRYPTED, SMF_REPLY, SMF_RELEASE_PENDING_P2},
      {"MCFG_ATTR", "HASH"}, {"VID"},
      EVENT_RETRANSMIT, "xauth_inI0", V1_HASH_1),
    Microcode("STATE_XAUTH_I1", "STATE_MAIN_I4",
      SMF_ALL_AUTH,
      {SMF_INPUT_ENCRYPTED, SMF_OUTPUT_ENCRYPTED, SMF_REPLY, SMF_RELEASE_PENDING_P2},
      {"MCFG_ATTR", "HASH"}, {"VID"},
      EVENT_RETRANSMIT, "xauth_inI1", V1_HASH_1)
  >>


TableIndexes == 1 .. Len(v1_state_microcode_table)

(***************************************************************************)
(* init_ikev1: finite_states[kind].v1_transitions is the first entry of    *)
(* the table for that state; finite_states[kind].flags collects            *)
(* SMF_RETRANSMIT_ON_DUPLICATE from the entries of the state.              *)
(***************************************************************************)
v1_transitions(kind) ==
  CHOOSE i \in TableIndexes :
    /\ v1_state_microcode_table[i].state = kind
    /\ \A j \in 1 .. (i - 1) : v1_state_microcode_table[j].state # kind

finite_state_flags(kind) ==
  IF \E i \in TableIndexes :
        /\ v1_state_microcode_table[i].state = kind
        /\ SMF_RETRANSMIT_ON_DUPLICATE \in v1_state_microcode_table[i].flags
  THEN {SMF_RETRANSMIT_ON_DUPLICATE}
  ELSE {}

(***************************************************************************)
(* Packets.  A datagram is the record of what its bytes hold: the ISAKMP   *)
(* header fields, the (decrypted) outer payload chain, and three facts     *)
(* about the bytes that the external collaborators report: which payload,  *)
(* if any, fails to parse (bad), the HASH verifies (hashok), the body is a *)
(* multiple of the cipher block size (blk).  v tells apart datagrams that  *)
(* differ                                                                  *)
(* only in payload contents.  Two datagrams are bytewise equal exactly     *)
(* when their records are equal.  A fragment datagram (isa_np is           *)
(* IKE_FRAGMENTATION) carries frag; every other datagram has NoFrag.       *)
(***************************************************************************)
NoFrag == [ id |-> 0, number |-> 0, last |-> FALSE, ok |-> TRUE, data |-> << >> ]

NoPacket ==
  [ xchg |-> "NONE", icookie |-> 0, rcookie |-> 0, msgid |-> 0,
    enc |-> FALSE, chain |-> << >>, bad |-> 0, hashok |-> TRUE,
    blk |-> TRUE, ntype |-> "NONE", ndata |-> "NONE", v |-> 0,
    frag |-> NoFrag ]

Pkt(xchg, icookie, rcookie, msgid, enc, chain, v) ==
  [ NoPacket EXCEPT !.xchg = xchg, !.icookie = icookie, !.rcookie = rcookie,
                    !.msgid = msgid, !.enc = enc, !.chain = chain, !.v = v ]

IsFragment(pkt) == pkt.frag # NoFrag

(***************************************************************************)
(* The wire image of a datagram and its inverse: the reassembler glues     *)
(* fragment payloads into a buffer that process_packet parses again.  The  *)
(* image is a sequence of octet groups, each the encoding of a name, a     *)
(* number or a flag; a buffer whose groups are not the encodings the       *)
(* header and the payload chain need does not parse.                       *)
(***************************************************************************)
NameOctets(s) == [ enc |-> "name", s |-> s, n |-> 0, b |-> FALSE ]

NumberOctets(n) == [ enc |-> "number", s |-> "", n |-> n, b |-> FALSE ]

FlagOctets(b) == [ enc |-> "flag", s |-> "", n |-> 0, b |-> b ]

Serialize(pkt) ==
  << NameOctets(pkt.xchg), NumberOctets(pkt.icookie), NumberOctets(pkt.rcookie),
     NumberOctets(pkt.msgid), FlagOctets(pkt.enc), NumberOctets(pkt.bad),
     FlagOctets(pkt.hashok), FlagOctets(pkt.blk), NameOctets(pkt.ntype),
     NumberOctets(pkt.v), NameOctets(pkt.ndata) >> \o [ i \in DOMAIN pkt.chain |-> NameOctets(pkt.chain[i]) ]

HeaderLen == Len(Serialize(NoPacket))

HeaderParses(bytes) ==
  /\ Len(bytes) >= HeaderLen
  /\ \A i \in 1 .. HeaderLen : bytes[i].enc = Serialize(NoPacket)[i].enc
  /\ \A i \in HeaderLen + 1 .. Len(bytes) : bytes[i].enc = "name"

ParseHeader(bytes) ==
  IF ~ HeaderParses(bytes)
  THEN NoPacket
  ELSE [ NoPacket EXCEPT
           !.xchg = bytes[1].s, !.icookie = bytes[2].n, !.rcookie = bytes[3].n,
           !.msgid = bytes[4].n, !.enc = bytes[5].b, !.bad = bytes[6].n,
           !.hashok = bytes[7].b, !.blk = bytes[8].b, !.ntype = bytes[9].s,
           !.v = bytes[10].n, !.ndata = bytes[11].s,
           !.chain = [ i \in 1 .. Len(bytes) - HeaderLen |-> bytes[HeaderLen + i].s ] ]

(***************************************************************************)
(* struct state.  A slot of the state table holds NoState until a state    *)
(* object with that serial number is created and again after delete_state. *)
(***************************************************************************)
NoState == [ kind |-> NULL ]

NoMd == [ pkt |-> NoPacket, st |-> 0, from_state |-> STATE_UNDEFINED,
          smc |-> 0, new_iv_set |-> FALSE, encrypted |-> FALSE,
          raw_packet |-> NoPacket, event_already_set |-> FALSE,
          tail |-> FALSE ]

NewState(kind, icookie, rcookie, msgid, clonedfrom, auth) ==
  [ kind |-> kind, icookie |-> icookie, rcookie |-> rcookie,
    msgid |-> msgid, phase15 |-> v1_MAINMODE_MSGID, reserved |-> FALSE,
    clonedfrom |-> clonedfrom, auth |-> auth, doing_xauth |-> FALSE,
    rpacket |-> NoPacket, tpacket |-> NoPacket, last_transition |-> 0,
    event |-> EVENT_NULL, event_delay |-> 0, g_armed |-> 0,
    send_xauth_event |-> FALSE,
    nr_duplicates |-> 0, offloaded_task |-> FALSE, dh_background |-> FALSE,
    suspended_md |-> NoMd, oakley_life |-> 0,
    st_ah |-> [ present |-> FALSE, life |-> 0 ],
    st_esp |-> [ present |-> FALSE, life |-> 0 ],
    st_ipcomp |-> [ present |-> FALSE, life |-> 0 ],
    skeyid_calculated |-> FALSE, skeyid_e |-> FALSE,
    rfrags |-> << >>, seen_fragments |-> FALSE,
    xauth_client_done |-> FALSE, modecfg_vars_set |-> FALSE,
    modecfg_started |-> FALSE, seen_nortel_vid |-> FALSE,
    xauth_launched |-> FALSE,
    nat_t_rfc |-> FALSE, used_msgids |-> {}, malformed_received |-> 0,
    g_info |-> {}, g_quick |-> {}, g_retx |-> 0,
    g_trigger |-> NoPacket, pending |-> << >> ]

Serials == 1 .. MaxSerial

Exists(S, n) == n \in Serials /\ S[n] # NoState

IS_CHILD_SA(st) == st.clonedfrom # SOS_NOBODY

MinOf(set) == CHOOSE n \in set : \A m \in set : n <= m

(***************************************************************************)
(* State table lookups (state.c): 0 stands for the NULL state pointer.     *)
(***************************************************************************)
find_state_ikev1(S, icookie, rcookie, msgid) ==
  LET hits == { n \in Serials :
                  /\ S[n] # NoState
                  /\ S[n].icookie = icookie
                  /\ S[n].rcookie = rcookie
                  /\ S[n].msgid = msgid }
  IN IF hits = {} THEN 0 ELSE MinOf(hits)

(* no state object is ever found *)
NoInitState(S, icookie, msgid) == 0

find_state_ikev1_init(S, icookie, msgid) ==
  LET hits == { n \in Serials :
                  /\ S[n] # NoState
                  /\ S[n].icookie = icookie
                  /\ S[n].clonedfrom = SOS_NOBODY
                  /\ S[n].msgid = msgid }
  IN IF hits = {} THEN 0 ELSE MinOf(hits)

find_v1_info_state(S, icookie, rcookie, msgid) ==
  LET hits == { n \in Serials :
                  /\ S[n] # NoState
                  /\ S[n].icookie = icookie
                  /\ S[n].rcookie = rcookie
                  /\ \/ S[n].msgid = msgid
                     \/ /\ S[n].phase15 # v1_MAINMODE_MSGID
                        /\ S[n].phase15 = msgid }
  IN IF hits = {} THEN 0 ELSE MinOf(hits)

(***************************************************************************)
(* Message-id book of an IKE SA (ikev1_msgid.c).                           *)
(***************************************************************************)
(* every message id passes for unused *)
AnyMsgid(st, msgid) == TRUE

unique_msgid(st, msgid) == msgid \notin st.used_msgids

reserve_msgid(st, msgid) ==
  [ st EXCEPT !.used_msgids = st.used_msgids \cup {msgid} ]

(***************************************************************************)
(* state_is_busy / verbose_state_busy (state.c): a state with a suspended  *)
(* transition or a foreground crypto request ignores packets.              *)
(***************************************************************************)
state_is_busy(st) == st.suspended_md # NoMd \/ st.offloaded_task


(***************************************************************************)
(* The state of the daemon.                                                *)
(*   conn     the connection every SA of the run belongs to                *)
(*   sas      the state table, by serial number                            *)
(*   nserial  the number of state objects created so far                   *)
(*   sent     what the last step put on the wire                           *)
(*   crashed  the daemon aborted (passert, bad_case) or ran into undefined *)
(*            behaviour that stopped it                                    *)
(*   last     a record of what the last step did with its datagram         *)
(* The fields g_retx, g_trigger and g_armed of a state object are history  *)
(* variables: the retransmissions since its last completed transition, the *)
(* datagram that triggered that transition, and the st_event timers        *)
(* scheduled on it since the last delete_event (2 stands for two or more). *)
(***************************************************************************)
VARIABLES conn, sas, nserial, sent, crashed, last, connections

vars == << conn, sas, nserial, sent, crashed, last, connections >>

(***************************************************************************)
(* Operators thread the world w = [S, n, sent, crashed, ev] through one    *)
(* call of process_packet; ev collects what the call did.                  *)
(***************************************************************************)
(* what unpend found when it ran: the ISAKMP SA as it was then, how many  *)
(* datagrams the call had sent, and what had been reported to whack        *)
NoRelease ==
  [ queue |-> << >>, kind |-> NULL, last_transition |-> 0, rpacket |-> NoPacket,
    event |-> EVENT_NULL, nsent |-> 0, reported |-> NULL ]

(* what one call of ikev1_decode_peer_id did: its answer, how many times  *)
(* it re-entered itself, and the connection it started from                *)
NoDecoded == [ ok |-> FALSE, depth |-> 0, from |-> 0, refined |-> 0 ]

NoEvent ==
  [ by |-> "none", pkt |-> NoPacket, outcome |-> "none", why |-> "none", st |-> 0,
    from_state |-> STATE_UNDEFINED, smc |-> 0, handler |-> NULL,
    result |-> NULL, kind |-> NULL, routed |-> 0, retransmitted |-> FALSE, reassembled |-> << >>,
    fragment |-> NoPacket, frag_st |-> 0, whole |-> FALSE,
    promoted |-> FALSE, full |-> FALSE, ub |-> FALSE,
    malformed_sent |-> 0, new_peer |-> NULL,
    reported |-> NULL, released |-> NoRelease, decoded |-> NoDecoded ]

World(S, n) ==
  [ S |-> S, n |-> n, sent |-> << >>, crashed |-> FALSE, ev |-> NoEvent ]

Notification(note, st) == [ what |-> "notification", note |-> note, st |-> st ]

Transmission(what, pkt, st) == [ what |-> what, note |-> pkt, st |-> st ]

SEND_NOTIFICATION(w, st, note) ==
  [ w EXCEPT !.sent = Append(@, Notification(note, st)) ]

Outcome(w, outcome, why) ==
  [ w EXCEPT !.ev.outcome = outcome, !.ev.why = why ]

(* a state change that is not carried out *)
StateKept(w, n, kind) == w

change_state(w, n, kind) == [ w EXCEPT !.S[n].kind = kind ]

(***************************************************************************)
(* count_duplicate (retry.c): counts the duplicate and tells whether the   *)
(* limit still allows an answer.  Every count above the limit behaves the  *)
(* same, so the counter saturates one above the limit.                     *)
(***************************************************************************)
(* a counter without a limit *)
CountOnly(st, limit) ==
  [ st |-> [ st EXCEPT !.nr_duplicates = IF @ >= limit THEN limit + 1 ELSE @ + 1 ],
    ok |-> TRUE ]

count_duplicate(st, limit) ==
  LET nr == st.nr_duplicates + 1
  IN [ st |-> [ st EXCEPT !.nr_duplicates = IF nr > limit THEN limit + 1 ELSE nr ],
       ok |-> ~ (nr > limit) ]

(* every duplicate gets an answer *)
AnyDuplicate(st) == TRUE

(* replied && retransmit_on_duplicate *)
RetransmitAllowed(st) ==
  /\ st.last_transition # 0
  /\ SMF_REPLY \in v1_state_microcode_table[st.last_transition].flags
  /\ SMF_RETRANSMIT_ON_DUPLICATE \in finite_state_flags(st.kind)

resend_recorded_v1_ike_msg(w, n) ==
  [ w EXCEPT !.sent = Append(@, Transmission("retransmit", w.S[n].tpacket, n)),
             !.ev.retransmitted = TRUE,
             !.S[n].g_retx = IF @ > MAXIMUM_v1_ACCEPTED_DUPLICATES
                             THEN @ ELSE @ + 1 ]

Counted(w, n, counted) ==
  IF counted.ok
  THEN resend_recorded_v1_ike_msg([ w EXCEPT !.S[n] = counted.st ], n)
  ELSE [ w EXCEPT !.S[n] = counted.st ]

Duplicate(w, n, st) ==
  IF RetransmitAllowed(st)
  THEN IF v1_state_microcode_table[st.last_transition].timeout_event
            = EVENT_SO_DISCARD
       THEN resend_recorded_v1_ike_msg(w, n)
       ELSE Counted(w, n, count_duplicate(st, MAXIMUM_v1_ACCEPTED_DUPLICATES))
  ELSE w

ikev1_duplicate(w, n, pkt) ==
  IF n = 0
  THEN [ dup |-> FALSE, w |-> w ]
  ELSE IF w.S[n].rpacket # NoPacket /\ w.S[n].rpacket = pkt
  THEN [ dup |-> TRUE, w |-> Duplicate(w, n, w.S[n]) ]
  ELSE [ dup |-> FALSE, w |-> w ]

(***************************************************************************)
(* process_v1_packet, first part: the switch on the exchange type finds    *)
(* the state object and from_state, or returns.                            *)
(***************************************************************************)
Return(w, st, outcome, why) ==
  [ ret |-> TRUE, w |-> Outcome([ w EXCEPT !.ev.st = st ], outcome, why),
    st |-> st, from_state |-> STATE_UNDEFINED, new_iv_set |-> FALSE ]

Found(w, st, from_state, new_iv_set) ==
  [ ret |-> FALSE, w |-> w, st |-> st, from_state |-> from_state,
    new_iv_set |-> new_iv_set ]

DemuxPhase1(w, pkt) ==
  IF pkt.msgid # v1_MAINMODE_MSGID
  THEN Return(SEND_NOTIFICATION(w, 0, "INVALID_MESSAGE_ID"), 0, "reject", "demux")
  ELSE IF pkt.icookie = 0
  THEN Return(SEND_NOTIFICATION(w, 0, "INVALID_COOKIE"), 0, "reject", "demux")
  ELSE IF pkt.rcookie = 0
  THEN IF pkt.enc
       THEN Return(SEND_NOTIFICATION(w, 0, "INVALID_FLAGS"), 0, "reject", "demux")
       ELSE LET st == find_state_ikev1_init(w.S, pkt.icookie, pkt.msgid)
                d == ikev1_duplicate(w, st, pkt)
            IN IF st # 0
               THEN IF d.dup
                    THEN Return(d.w, st, "duplicate", "initial")
                    ELSE Return(w, st, "reject", "initial")
               ELSE Found(w, 0, IF pkt.xchg = "IDPROT" THEN "STATE_MAIN_R0"
                                                      ELSE "STATE_AGGR_R0", FALSE)
  ELSE LET st1 == find_state_ikev1(w.S, pkt.icookie, pkt.rcookie, pkt.msgid)
           st == IF st1 # 0 THEN st1
                 ELSE find_state_ikev1_init(w.S, pkt.icookie, pkt.msgid)
       IN IF st = 0
          THEN Return(w, 0, "reject", "demux")
          ELSE Found(w, st, w.S[st].kind, FALSE)

(* a lookup that lets every plaintext Informational message through *)
AcceptPlain(w, pkt) ==
  LET st1 == find_v1_info_state(w.S, pkt.icookie, pkt.rcookie, v1_MAINMODE_MSGID)
      st == IF st1 # 0 THEN st1
            ELSE find_state_ikev1_init(w.S, pkt.icookie, v1_MAINMODE_MSGID)
  IN IF pkt.enc /\ st = 0
     THEN Return(w, 0, "reject", "demux")
     ELSE Found(w, st, IF pkt.enc THEN "STATE_INFO_PROTECTED" ELSE "STATE_INFO",
                pkt.enc)

DemuxInfo(w, pkt) ==
  LET st1 == find_v1_info_state(w.S, pkt.icookie, pkt.rcookie, v1_MAINMODE_MSGID)
      st == IF st1 # 0 THEN st1
            ELSE find_state_ikev1_init(w.S, pkt.icookie, v1_MAINMODE_MSGID)
  IN IF pkt.enc
     THEN IF st = 0
          THEN Return(w, 0, "reject", "demux")
          ELSE IF ~ IS_ISAKMP_ENCRYPTED(w.S[st].kind)
          THEN Return(w, st, "reject", "demux")
          ELSE IF pkt.msgid = v1_MAINMODE_MSGID
          THEN Return(w, st, "reject", "demux")
          ELSE IF ~ unique_msgid(w.S[st], pkt.msgid)
          THEN Return(w, st, "reject", "demux")
          ELSE Found([ w EXCEPT !.S[st].reserved = FALSE ], st,
                     "STATE_INFO_PROTECTED", TRUE)
     ELSE IF st # 0 /\ IS_ISAKMP_AUTHENTICATED(w.S[st].kind)
          THEN Return(w, st, "reject", "demux")
          ELSE Found(w, st, "STATE_INFO", FALSE)

DemuxQuick(w, pkt) ==
  IF pkt.icookie = 0 \/ pkt.rcookie = 0
  THEN Return(SEND_NOTIFICATION(w, 0, "INVALID_COOKIE"), 0, "reject", "demux")
  ELSE IF pkt.msgid = v1_MAINMODE_MSGID
  THEN Return(SEND_NOTIFICATION(w, 0, "INVALID_MESSAGE_ID"), 0, "reject", "demux")
  ELSE LET q == find_state_ikev1(w.S, pkt.icookie, pkt.rcookie, pkt.msgid)
           st == find_state_ikev1(w.S, pkt.icookie, pkt.rcookie, v1_MAINMODE_MSGID)
           promote == w.S[st].kind = "STATE_MODE_CFG_R2"
           w1 == IF promote
                 THEN [ change_state(w, st, "STATE_MAIN_R3") EXCEPT !.ev.promoted = TRUE ]
                 ELSE w
       IN IF q # 0
          THEN IF w.S[q].doing_xauth
               THEN Return(w, q, "reject", "demux")
               ELSE Found(w, q, w.S[q].kind, FALSE)
          ELSE IF st = 0
          THEN Return(w, 0, "reject", "demux")
          ELSE IF w.S[st].doing_xauth
          THEN Return(w, st, "reject", "demux")
          ELSE IF ~ IS_ISAKMP_SA_ESTABLISHED(w1.S[st].kind)
          THEN Return(SEND_NOTIFICATION(w1, st, "PAYLOAD_MALFORMED"), st, "reject", "demux")
          ELSE IF ~ unique_msgid(w1.S[st], pkt.msgid)
          THEN Return(SEND_NOTIFICATION(w1, st, "INVALID_MESSAGE_ID"), st, "reject", "demux")
          ELSE Found([ w1 EXCEPT !.S[st].reserved = FALSE ], st, "STATE_QUICK_R0", TRUE)

DemuxModeCfg(w, pkt) ==
  IF pkt.icookie = 0 \/ pkt.rcookie = 0 \/ pkt.msgid = 0
  THEN Return(w, 0, "reject", "demux")
  ELSE LET m == find_v1_info_state(w.S, pkt.icookie, pkt.rcookie, pkt.msgid)
           st == find_v1_info_state(w.S, pkt.icookie, pkt.rcookie, 0)
           kind == w.S[st].kind
           switch == conn.xauth_server /\ IS_PHASE1(w.S[m].kind)
           w1 == IF switch
                 THEN [ change_state(w, m, "STATE_XAUTH_R0") EXCEPT !.ev.promoted = TRUE ]
                 ELSE w
       IN IF m # 0
          THEN Found(w1, m, w1.S[m].kind, FALSE)
          ELSE IF st = 0
          THEN Return(w, 0, "reject", "demux")
          ELSE IF ~ IS_ISAKMP_SA_ESTABLISHED(kind)
          THEN Return(w, st, "reject", "demux")
          ELSE IF conn.xauth_server /\ kind = "STATE_XAUTH_R1" /\ conn.xauth_ack_msgid
          THEN Found(w, st, "STATE_XAUTH_R1", TRUE)
          ELSE IF conn.xauth_client /\ IS_PHASE1(kind)
          THEN Found(w, st, "STATE_XAUTH_I0", TRUE)
          ELSE IF conn.xauth_client /\ kind = "STATE_XAUTH_I1"
          THEN Found(w, st, "STATE_XAUTH_I0", TRUE)
          ELSE IF conn.modecfg_server /\ IS_PHASE1(kind)
          THEN Found(w, st, "STATE_MODE_CFG_R0", TRUE)
          ELSE IF conn.modecfg_client /\ IS_PHASE1(kind)
          THEN Found(w, st, "STATE_MODE_CFG_R1", TRUE)
          ELSE Return(w, st, "reject", "demux")

Demux(w, pkt) ==
  CASE pkt.xchg \in {"IDPROT", "AGGR"} -> DemuxPhase1(w, pkt)
    [] pkt.xchg = "INFO" -> DemuxInfo(w, pkt)
    [] pkt.xchg = "QUICK" -> DemuxQuick(w, pkt)
    [] pkt.xchg = "MODE_CFG" -> DemuxModeCfg(w, pkt)
    [] OTHER -> Return(SEND_NOTIFICATION(w, 0, "UNSUPPORTED_EXCHANGE_TYPE"), 0,
                       "reject", "demux")


(***************************************************************************)
(* Timer slots of a state (timer.c).  st_event holds the one retransmit /  *)
(* replace / expire / discard event; EVENT_v1_SEND_XAUTH has its own slot. *)
(* The retransmit bookkeeping, duplicate counter included, is cleared when *)
(* retransmission starts and when a retransmit event is deleted.           *)
(***************************************************************************)
delete_event(st) ==
  [ st EXCEPT !.event = EVENT_NULL, !.event_delay = 0, !.g_armed = 0,
              !.nr_duplicates = IF st.event = EVENT_RETRANSMIT THEN 0 ELSE @ ]

event_schedule(st, kind, delay) ==
  IF kind = EVENT_v1_SEND_XAUTH
  THEN [ st EXCEPT !.send_xauth_event = TRUE ]
  ELSE [ st EXCEPT !.event = kind, !.event_delay = delay,
                   !.g_armed = IF @ >= 2 THEN 2 ELSE @ + 1 ]

start_retransmits(st) ==
  [ event_schedule(st, EVENT_RETRANSMIT, 0) EXCEPT !.nr_duplicates = 0 ]

release_fragments(st) == [ st EXCEPT !.rfrags = << >> ]

delete_state(w, n) == [ w EXCEPT !.S[n] = NoState ]

(***************************************************************************)
(* Results of a state transition function (stf_status).  STF_FAIL_NOTE is  *)
(* STF_FAIL + a notification number.                                       *)
(***************************************************************************)
STF_OK == "STF_OK"
STF_SUSPEND == "STF_SUSPEND"
STF_IGNORE == "STF_IGNORE"
STF_FAIL == "STF_FAIL"
STF_FAIL_NOTE == "STF_FAIL_NOTE"
STF_FATAL == "STF_FATAL"
STF_INTERNAL_ERROR == "STF_INTERNAL_ERROR"

HandlerResults ==
  { STF_OK, STF_SUSPEND, STF_IGNORE, STF_FAIL, STF_FAIL_NOTE, STF_FATAL,
    STF_INTERNAL_ERROR }

(***************************************************************************)
(* What a call of a state transition function outside ikev1.c decides:     *)
(* its result, one yes/no fact of the exchange (alt), and the message id   *)
(* drawn by generate_msgid when the step starts an exchange of its own.    *)
(***************************************************************************)
Oracles == [ result : HandlerResults, alt : BOOLEAN, gen : 1 .. MaxMsgid ]

RCookie == 1

LCookie == 2

Reply(md) ==
  [ NoPacket EXCEPT !.xchg = md.pkt.xchg, !.icookie = md.pkt.icookie,
                    !.rcookie = IF md.pkt.rcookie = 0 THEN RCookie ELSE md.pkt.rcookie,
                    !.msgid = md.pkt.msgid,
                    !.enc = SMF_OUTPUT_ENCRYPTED \in v1_state_microcode_table[md.smc].flags,
                    !.ntype = "REPLY", !.v = md.pkt.v ]

Request(st, xchg, msgid) ==
  [ NoPacket EXCEPT !.xchg = xchg, !.icookie = st.icookie,
                    !.rcookie = st.rcookie, !.msgid = msgid, !.enc = TRUE,
                    !.ntype = "REQUEST" ]

(* the received packet is not recorded *)
ForgetReceived(st, md) == st

remember_received_packet(st, md) ==
  IF md.encrypted
  THEN IF md.raw_packet # NoPacket
       THEN [ st EXCEPT !.rpacket = md.raw_packet ]
       ELSE st
  ELSE [ st EXCEPT !.rpacket = md.pkt ]

suspend_md(w, md) ==
  IF md.st = 0 THEN w ELSE [ w EXCEPT !.S[md.st].suspended_md = md ]


(***************************************************************************)
(* State transition functions.  unexpected and informational are in        *)
(* ikev1.c; the others live in ikev1_main.c, ikev1_aggr.c, ikev1_quick.c   *)
(* and ikev1_xauth.c and are represented by the oracle h: the result they  *)
(* return and the part of their bookkeeping the engine depends on.         *)
(***************************************************************************)
Done(w, md, result) == [ w |-> w, md |-> md, result |-> result ]

unexpected(w, md) == Done(w, md, STF_IGNORE)

HasPayload(pkt, np) == \E k \in DOMAIN pkt.chain : pkt.chain[k] = np

(* dpd_inI_outR and dpd_inR (ikev1_dpd.c) answer STF_IGNORE, or STF_FAIL   *)
(* for a probe they do not accept                                          *)
dpd(w, md, h) ==
  IF md.st = 0
  THEN Done(w, md, STF_IGNORE)
  ELSE Done(w, md, IF h.alt THEN STF_FAIL ELSE STF_IGNORE)

(* st_malformed_sent is counted by the notification sender outside         *)
(* ikev1.c; h.alt tells whether the count it left is at the limit          *)
malformed_sent(h) == IF h.alt THEN MAXIMUM_MALFORMED_NOTIFY ELSE 0

TooManyMalformed(st, h) ==
  /\ malformed_sent(h) > MAXIMUM_MALFORMED_NOTIFY \div 2
  /\ malformed_sent(h) + st.malformed_received > MAXIMUM_MALFORMED_NOTIFY

CountMalformed(st) == [ st EXCEPT !.malformed_received = @ + 1 ]

MalformedCounted(w, md, h) ==
  IF TooManyMalformed(CountMalformed(w.S[md.st]), h)
  THEN Done(delete_state(w, md.st), [ md EXCEPT !.st = 0 ], STF_IGNORE)
  ELSE Done([ w EXCEPT !.S[md.st] = CountMalformed(@) ], md, STF_IGNORE)

payload_malformed(w, md, h) ==
  IF md.st = 0
  THEN Done(w, md, STF_IGNORE)
  ELSE IF w.S[md.st].malformed_received >= MaxMalformed
  THEN Done([ w EXCEPT !.ev.full = TRUE ], md, STF_IGNORE)
  ELSE MalformedCounted([ w EXCEPT !.ev.malformed_sent = malformed_sent(h) ], md, h)

(* initiate_connection (initiate.c) starts a new exchange with the peer    *)
(* the notification names: a state object of its own                       *)
initiate_connection(w) ==
  IF w.n < MaxSerial
  THEN [ w EXCEPT !.n = w.n + 1,
                  !.S[w.n + 1] =
                     start_retransmits(
                       NewState(IF conn.aggressive THEN "STATE_AGGR_I1"
                                                   ELSE "STATE_MAIN_I1",
                                LCookie, 0, v1_MAINMODE_MSGID, SOS_NOBODY,
                                conn.auth)) ]
  ELSE [ w EXCEPT !.ev.full = TRUE ]

(* a notification that is logged and ignored *)
IgnoreNotification(w, md) == Done(w, md, STF_IGNORE)

(* the notification data: "NONE" is shorter than an IPv4 address, "ANY"    *)
(* ends in the all-zero address, every other value is the address the      *)
(* last four octets hold                                                   *)
cisco_load_balance(w, md) ==
  IF md.st = 0 \/ ~ IS_ISAKMP_SA_ESTABLISHED(w.S[md.st].kind)
  THEN Done(w, md, STF_IGNORE)
  ELSE IF md.pkt.ndata = "NONE"
  THEN Done(w, md, STF_IGNORE)
  ELSE IF md.pkt.ndata = "ANY"
  THEN Done(w, md, STF_IGNORE)
  ELSE Done(initiate_connection([ delete_state(w, md.st) EXCEPT
                                    !.ev.new_peer = md.pkt.ndata ]),
            [ md EXCEPT !.st = 0 ], STF_IGNORE)

(* a handler that looks at nothing *)
IgnoreAll(w, md, h) == Done(w, md, STF_IGNORE)

informational(w, md, h) ==
  IF ~ HasPayload(md.pkt, "N")
  THEN Done(w, md, STF_IGNORE)
  ELSE CASE md.pkt.ntype \in { "R_U_THERE", "R_U_THERE_ACK" } -> dpd(w, md, h)
         [] md.pkt.ntype = "PAYLOAD_MALFORMED" -> payload_malformed(w, md, h)
         [] md.pkt.ntype = "CISCO_LOAD_BALANCE" -> cisco_load_balance(w, md)
         [] OTHER -> Done(w, md, STF_IGNORE)

CreatingPhase1 == { "main_inI1_outR1", "aggr_inI1_outR1" }

KeyAgreement == { "main_inI2_outR2", "main_inR2_outI3", "aggr_inI1_outR1",
                  "aggr_inR1_outI2" }

LearnsRCookie == { "main_inR1_outI2", "aggr_inR1_outI2" }

Creates(proc, h) ==
  /\ proc \in CreatingPhase1 \cup { "quick_inI1_outR1" }
  /\ h.result # STF_IGNORE
  /\ h.result \in { STF_FAIL, STF_FAIL_NOTE } => h.alt

(* new_v1_rstate / duplicate_state: the state object the function builds *)
BuiltState(w, md, proc) ==
  IF proc \in CreatingPhase1
  THEN [ NewState(md.from_state, md.pkt.icookie, RCookie, v1_MAINMODE_MSGID,
                  SOS_NOBODY, conn.auth)
         EXCEPT !.doing_xauth = conn.xauth_server \/ conn.xauth_client,
                !.nat_t_rfc = conn.nat_t_rfc,
                !.oakley_life = conn.peer_ike_life ]
  ELSE [ NewState("STATE_QUICK_R0", md.pkt.icookie, md.pkt.rcookie,
                  md.pkt.msgid, md.st, w.S[md.st].auth)
         EXCEPT !.skeyid_calculated = w.S[md.st].skeyid_calculated,
                !.skeyid_e = w.S[md.st].skeyid_e,
                !.st_ah = conn.peer_ah,
                !.st_esp = [ present |-> conn.peer_esp,
                             life |-> IF conn.peer_esp
                                      THEN conn.peer_ipsec_life ELSE 0 ],
                !.st_ipcomp = conn.peer_ipcomp ]

(* the bookkeeping of a function that returns STF_OK *)
BookKeys(st, proc, h) ==
  IF proc \in KeyAgreement
  THEN [ st EXCEPT !.skeyid_calculated = h.alt, !.skeyid_e = h.alt,
                   !.dh_background = ~ h.alt ]
  ELSE st

BookCookie(st, md, proc) ==
  IF proc \in LearnsRCookie
  THEN [ st EXCEPT !.rcookie = md.pkt.rcookie,
                   !.oakley_life = conn.peer_ike_life ]
  ELSE st

(* the Phase 1.5 functions (ikev1_xauth.c).  xauth_inI0 answers a request   *)
(* or, when the message carries the status (h.alt), finishes the client's  *)
(* XAUTH.  xauth_inR1 leaves doing_xauth and starts a new exchange (clears *)
(* phase15) unless a Mode Config set is still to be pushed.  The Mode      *)
(* Config functions adopt the message id of the message they answer.       *)
BookPhase15(st, md, proc, h) ==
  CASE proc = "xauth_inI0" ->
         [ st EXCEPT !.phase15 = md.pkt.msgid,
                     !.xauth_client_done = h.alt,
                     !.doing_xauth = @ /\ ~ h.alt ]
    [] proc = "xauth_inI1" ->
         [ st EXCEPT !.phase15 = v1_MAINMODE_MSGID,
                     !.doing_xauth = FALSE,
                     !.xauth_client_done = TRUE ]
    [] proc = "xauth_inR1" ->
         [ st EXCEPT !.phase15 = IF /\ conn.modecfg_server
                                    /\ ~ st.modecfg_vars_set
                                    /\ ~ conn.modecfg_pull
                                 THEN @ ELSE v1_MAINMODE_MSGID,
                     !.doing_xauth = FALSE ]
    [] proc \in { "modecfg_inR0", "modecfg_inR1" } ->
         [ st EXCEPT !.phase15 = md.pkt.msgid,
                     !.modecfg_vars_set = TRUE ]
    [] OTHER -> st

(* quick_inR1_outI2 (ikev1_quick.c) parses the peer's answer to the        *)
(* initiator's proposal: the transforms of the Child SA                    *)
BookProposal(st, proc) ==
  IF proc = "quick_inR1_outI2"
  THEN [ st EXCEPT !.st_ah = conn.peer_ah,
                   !.st_esp = [ present |-> conn.peer_esp,
                                life |-> IF conn.peer_esp
                                         THEN conn.peer_ipsec_life ELSE 0 ],
                   !.st_ipcomp = conn.peer_ipcomp ]
  ELSE st

Bookkeeping(st, md, proc, h) ==
  BookPhase15(BookCookie(BookProposal(BookKeys(st, proc, h), proc), md, proc),
              md, proc, h)

(* a Quick Mode responder is cloned from the ISAKMP SA of the message *)
Builds(w, md, proc, h) ==
  /\ Creates(proc, h)
  /\ md.tail = FALSE
  /\ proc \in CreatingPhase1 \/ md.st # 0

Built(w, md, proc) ==
  [ w EXCEPT !.n = w.n + 1, !.S[w.n + 1] = BuiltState(w, md, proc) ]

Booked(w, md, proc, h) ==
  CASE md.st = 0 -> w
    [] h.result = STF_OK ->
         [ w EXCEPT !.S[md.st] = Bookkeeping(@, md, proc, h) ]
    [] h.result = STF_SUSPEND ->
         [ w EXCEPT !.S[md.st].offloaded_task = TRUE ]
    [] h.result = STF_IGNORE /\ proc = "xauth_inR0" ->
         [ w EXCEPT !.S[md.st].xauth_launched = h.alt ]
    [] OTHER -> w

Ran(w, md, proc, h, full) ==
  Done([ Booked(w, md, proc, h) EXCEPT !.ev.full = full ],
       [ md EXCEPT !.tail = TRUE ], h.result)

ExternalFunction(w, md, proc, h) ==
  IF Builds(w, md, proc, h) /\ w.n < MaxSerial
  THEN Ran(Built(w, md, proc), [ md EXCEPT !.st = w.n + 1 ], proc, h, FALSE)
  ELSE Ran(w, md, proc, h, Builds(w, md, proc, h))

processor(w, md, h) ==
  LET proc == v1_state_microcode_table[md.smc].processor
  IN CASE proc = "unexpected" -> unexpected(w, md)
       [] proc = "informational" -> informational(w, md, h)
       [] OTHER -> ExternalFunction(w, md, proc, h)


(***************************************************************************)
(* complete_v1_state_transition, case STF_OK: the timer that replaces the  *)
(* deleted one.  Delays are in milliseconds.  The result is the state with *)
(* the event scheduled, or bad when the switch reaches bad_case.           *)
(***************************************************************************)
(* a transform that limits nothing *)
unclamped(acc, trans) == acc

clamp_delay(acc, trans) ==
  IF trans.present /\ acc.delay >= trans.life
  THEN [ agreed_time |-> TRUE, delay |-> trans.life ]
  ELSE acc

(* the connection's own lifetime, whatever the peer proposed *)
OwnLifetime(st) ==
  [ agreed_time |-> FALSE,
    delay |-> 1000 * (IF IS_PHASE1(st.kind) \/ IS_PHASE15(st.kind)
                      THEN conn.sa_ike_life ELSE conn.sa_ipsec_life) ]

ReplaceDelay(st) ==
  IF IS_PHASE1(st.kind) \/ IS_PHASE15(st.kind)
  THEN IF conn.dont_rekey \/ conn.sa_ike_life * 1000 >= st.oakley_life * 1000
       THEN [ agreed_time |-> TRUE, delay |-> st.oakley_life * 1000 ]
       ELSE [ agreed_time |-> FALSE, delay |-> conn.sa_ike_life * 1000 ]
  ELSE LET d == clamp_delay(clamp_delay(clamp_delay(
                  [ agreed_time |-> FALSE, delay |-> conn.sa_ipsec_life ],
                  st.st_ah), st.st_esp), st.st_ipcomp)
       IN [ agreed_time |-> d.agreed_time, delay |-> d.delay * 1000 ]

(* rand() / (RAND_MAX + 1.E0), in hundredths *)
FuzzDraw == 0

RekeyMargin(smc) ==
  IF SMF_INITIATOR \in smc.flags
  THEN conn.sa_rekey_margin
       + (conn.sa_rekey_margin * conn.sa_rekey_fuzz * FuzzDraw) \div (100 * 100)
  ELSE conn.sa_rekey_margin \div 2

(* a rekey is planned whatever the policy says *)
AlwaysRekey(d, smc) == EVENT_SA_REPLACE

ReplaceKind(d, smc) ==
  IF d.agreed_time /\ conn.dont_rekey
  THEN IF SMF_INITIATOR \in smc.flags
       THEN EVENT_v1_SA_REPLACE_IF_USED
       ELSE EVENT_SA_EXPIRE
  ELSE EVENT_SA_REPLACE

Replace(st, kind, d, marg) ==
  IF kind # EVENT_SA_EXPIRE
  THEN IF d.delay > marg * 1000
       THEN event_schedule(st, kind, d.delay - marg * 1000)
       ELSE event_schedule(st, EVENT_SA_EXPIRE, d.delay)
  ELSE event_schedule(st, kind, d.delay)

ScheduleWith(st, smc, d) == Replace(st, ReplaceKind(d, smc), d, RekeyMargin(smc))

ScheduleReplace(st, smc) == ScheduleWith(st, smc, ReplaceDelay(st))

XauthSkipsModecfg(st) ==
  /\ conn.xauth_client
  /\ st.xauth_client_done
  /\ ~ conn.modecfg_client

ScheduleTimeout(st, smc) ==
  LET kind == IF XauthSkipsModecfg(st)
                 /\ st.kind \in { "STATE_MAIN_I4", "STATE_AGGR_I2" }
              THEN EVENT_SA_REPLACE
              ELSE smc.timeout_event
  IN CASE kind = EVENT_RETRANSMIT -> [ st |-> start_retransmits(st), bad |-> FALSE ]
       [] kind = EVENT_SA_REPLACE -> [ st |-> ScheduleReplace(st, smc), bad |-> FALSE ]
       [] kind = EVENT_SO_DISCARD ->
            [ st |-> event_schedule(st, EVENT_SO_DISCARD, conn.r_timeout * 1000),
              bad |-> FALSE ]
       [] OTHER -> [ st |-> st, bad |-> TRUE ]


Range(seq) == { seq[i] : i \in DOMAIN seq }

Crash(w, why) == [ w EXCEPT !.crashed = TRUE, !.ev.why = why ]

(***************************************************************************)
(* complete_v1_state_transition, case STF_OK, up to the new timer.         *)
(***************************************************************************)
SeenNortel(st, md) ==
  [ st EXCEPT !.seen_nortel_vid =
      @ \/ (conn.nortel /\ "VID" \in Range(md.pkt.chain)) ]

NeedsReservation(st) ==
  ~ st.reserved /\ IS_CHILD_SA(st) /\ st.msgid # v1_MAINMODE_MSGID

Reserve(w, st) ==
  IF NeedsReservation(st) /\ Exists(w.S, st.clonedfrom)
  THEN [ w EXCEPT !.S[st.clonedfrom] = reserve_msgid(@, st.msgid) ]
  ELSE w

(* history: the message ids of the Quick Mode exchanges of this ISAKMP SA  *)
(* that had a transition complete with STF_OK                              *)
QuickCompleted(w, st) ==
  IF IS_CHILD_SA(st) /\ st.msgid # v1_MAINMODE_MSGID /\ Exists(w.S, st.clonedfrom)
  THEN [ w EXCEPT !.S[st.clonedfrom].g_quick = @ \cup { st.msgid } ]
  ELSE w

(* change_state left out: what C2 would see if the engine never moved on *)
StayInState(st, smc) ==
  [ st EXCEPT !.reserved = @ \/ NeedsReservation(st) ]

MoveState(st, smc) ==
  [ st EXCEPT !.reserved = @ \/ NeedsReservation(st), !.kind = smc.next_state ]

(* the ad hoc state change left out *)
NoJump(st) == st

XauthJump(st) ==
  IF XauthSkipsModecfg(st) /\ st.kind = "STATE_XAUTH_I1"
  THEN [ st EXCEPT !.kind = IF conn.aggressive THEN "STATE_AGGR_I2"
                                                ELSE "STATE_MAIN_I4",
                   !.phase15 = v1_MAINMODE_MSGID ]
  ELSE st

(* delete_event left out: what C3 would see if the old timer stayed armed *)
KeepOldEvent(st, md) ==
  [ release_fragments(st) EXCEPT !.rpacket = NoPacket, !.tpacket = NoPacket ]

ForgetOld(st, md) ==
  [ release_fragments(IF ~ md.event_already_set THEN delete_event(st) ELSE st)
    EXCEPT !.rpacket = NoPacket, !.tpacket = NoPacket ]

Remember(st, md) ==
  [ remember_received_packet(st, md) EXCEPT
      !.last_transition = md.smc, !.g_retx = 0, !.g_trigger = md.pkt ]

SendReply(st, md, smc) ==
  IF SMF_REPLY \in smc.flags THEN [ st EXCEPT !.tpacket = Reply(md) ] ELSE st

Transmit(w, md, smc) ==
  IF SMF_REPLY \in smc.flags
  THEN [ w EXCEPT !.sent = Append(@, Transmission("reply", Reply(md), md.st)) ]
  ELSE w

Advanced(st, md, smc) ==
  SendReply(Remember(ForgetOld(XauthJump(MoveState(SeenNortel(st, md), smc)),
                               md), md), md, smc)

NewTimer(st, md, smc) ==
  IF ~ md.event_already_set
  THEN ScheduleTimeout(st, smc)
  ELSE [ st |-> st, bad |-> FALSE ]

Settle(w, n, st, t) ==
  IF t.bad
  THEN Crash([ w EXCEPT !.S[n] = st ], "bad_case")
  ELSE [ w EXCEPT !.S[n] = t.st ]

Timed(w, md, smc, st) == Settle(w, md.st, st, NewTimer(st, md, smc))

AdvanceWith(w, md, smc) ==
  Timed(Transmit(Reserve(QuickCompleted(w, w.S[md.st]),
                         SeenNortel(w.S[md.st], md)), md, smc), md, smc,
        Advanced(w.S[md.st], md, smc))

Advance(w, md) == AdvanceWith(w, md, v1_state_microcode_table[md.smc])

(***************************************************************************)
(* complete_v1_state_transition, case STF_OK, after the timer: the special *)
(* cases that start the next exchange.                                     *)
(***************************************************************************)
modecfg_send_request(w, n, h) ==
  [ w EXCEPT !.S[n].phase15 = h.gen, !.S[n].modecfg_started = TRUE,
             !.S[n].kind = "STATE_MODE_CFG_I1",
             !.S[n].tpacket = Request(w.S[n], "MODE_CFG", h.gen),
             !.sent = Append(@, Transmission("request",
                                Request(w.S[n], "MODE_CFG", h.gen), n)) ]

modecfg_start_set(w, n, h) ==
  [ w EXCEPT !.S[n].phase15 = h.gen,
             !.S[n].tpacket = Request(w.S[n], "MODE_CFG", h.gen),
             !.sent = Append(@, Transmission("request",
                                Request(w.S[n], "MODE_CFG", h.gen), n)) ]

quick_outI1(w, n, h) ==
  IF w.n >= MaxSerial
  THEN [ w EXCEPT !.ev.full = TRUE ]
  ELSE [ w EXCEPT !.n = w.n + 1,
                  !.S[w.n + 1] =
                     [ NewState("STATE_QUICK_I1", w.S[n].icookie, w.S[n].rcookie,
                                h.gen, n, w.S[n].auth)
                       EXCEPT !.skeyid_calculated = w.S[n].skeyid_calculated,
                              !.skeyid_e = w.S[n].skeyid_e,
                              !.tpacket = Request(w.S[n], "QUICK", h.gen),
                              !.event = EVENT_RETRANSMIT, !.g_armed = 1 ],
                  !.sent = Append(@, Transmission("request",
                                     Request(w.S[n], "QUICK", h.gen), w.n + 1)) ]

(* tell whack and log of progress: RC_SUCCESS for an established SA, else *)
(* the new state                                                           *)
Progress(w, md) ==
  [ w EXCEPT !.ev.reported =
      IF \/ IS_IPSEC_SA_ESTABLISHED_KIND(w.S[md.st].kind)
         \/ IS_ISAKMP_SA_ESTABLISHED(w.S[md.st].kind)
      THEN "RC_SUCCESS" ELSE "RC_NEW_V1_STATE" ]

(* unpend (pending.c): every Quick Mode negotiation queued on the ISAKMP   *)
(* SA n is started, oldest first, each under a message id of its own, and  *)
(* the queue is emptied                                                    *)
NextMsgid(msgid) == (msgid % MaxMsgid) + 1

RECURSIVE Release(_, _, _, _)
Release(w, n, queue, msgid) ==
  IF queue = << >>
  THEN w
  ELSE Release(quick_outI1(w, n, [ gen |-> msgid ]), n,
               Tail(queue), NextMsgid(msgid))

SeenByUnpend(w, n) ==
  [ queue |-> w.S[n].pending, kind |-> w.S[n].kind,
    last_transition |-> w.S[n].last_transition, rpacket |-> w.S[n].rpacket,
    event |-> w.S[n].event, nsent |-> Len(w.sent), reported |-> w.ev.reported ]

unpend(w, n, h) ==
  IF w.S[n].pending = << >>
  THEN w
  ELSE Release([ w EXCEPT !.S[n].pending = << >>,
                          !.ev.released = SeenByUnpend(w, n) ],
               n, w.S[n].pending, h.gen)

(* a follow-up that looks at the flag of the transition alone *)
UnpendAtOnce(w, md, h) ==
  IF SMF_RELEASE_PENDING_P2 \in v1_state_microcode_table[md.smc].flags
  THEN unpend(w, md.st, h)
  ELSE w

Followup(w, md, h) ==
  LET n == md.st
      st == w.S[n]
      smc == v1_state_microcode_table[md.smc]
      established == IS_ISAKMP_SA_ESTABLISHED(st.kind)
  IN IF conn.xauth_server /\ st.doing_xauth /\ established
     THEN [ w EXCEPT !.S[n] = event_schedule(st, EVENT_v1_SEND_XAUTH, 0) ]
     ELSE IF ~ IS_QUICK(st.kind) /\ conn.xauth_client /\ ~ st.xauth_client_done
     THEN w
     ELSE IF /\ conn.modecfg_client
             /\ established
             /\ conn.modecfg_pull
             /\ ~ st.modecfg_started
     THEN modecfg_send_request(w, n, h)
     ELSE IF /\ conn.modecfg_server
             /\ established
             /\ ~ st.modecfg_vars_set
             /\ ~ conn.modecfg_pull
     THEN modecfg_start_set(change_state(w, n, "STATE_MODE_CFG_R1"), n, h)
     ELSE IF /\ SMF_INITIATOR \notin smc.flags
             /\ IS_MODE_CFG_ESTABLISHED(st.kind)
             /\ st.seen_nortel_vid
     THEN quick_outI1(change_state(w, n, "STATE_MAIN_R3"), n, h)
     ELSE IF /\ conn.modecfg_client
             /\ established
             /\ ~ st.modecfg_vars_set
     THEN w
     ELSE IF SMF_RELEASE_PENDING_P2 \in smc.flags
     THEN unpend(w, n, h)
     ELSE w

Continue(advanced, md, h) ==
  IF advanced.crashed THEN advanced ELSE Followup(Progress(advanced, md), md, h)

(* the queued negotiations are started before the transition is applied *)
ReleasedBeforeCommit(w, md, h) == Advance(Followup(w, md, h), md)

(* complete_v1_state_transition, case STF_OK *)
Committed(w, md, h) == Continue(Advance(w, md), md, h)

(* a failed transition that cancels the SA's timer *)
TimerCancelled(w, n, result) == [ w EXCEPT !.S[n] = delete_event(@) ]

(* a failed transition that deletes nothing *)
NeverDeleted(w, n, result) == w

Failed(w, n, result) ==
  IF IS_QUICK(w.S[n].kind)
  THEN delete_state(w, n)
  ELSE w

Resulted(w, md, result, h) ==
  CASE result = STF_SUSPEND -> suspend_md(w, md)
    [] result = STF_IGNORE -> w
    [] md.st = 0 -> Crash(w, "passert")
    [] result = STF_OK -> Committed(w, md, h)
    [] result = STF_INTERNAL_ERROR ->
         [ w EXCEPT !.S[md.st] = remember_received_packet(@, md) ]
    [] result = STF_FATAL -> delete_state(w, md.st)
    [] result = STF_FAIL_NOTE ->
         Failed(SEND_NOTIFICATION(w, md.st, "v1_note"), md.st, result)
    [] OTHER -> Failed(w, md.st, result)

complete_v1_state_transition(w, md, result, h) ==
  Resulted([ w EXCEPT !.ev.result = result, !.ev.st = md.st,
                      !.ev.kind = IF md.st = 0 THEN NULL ELSE w.S[md.st].kind ],
           md, result, h)


(***************************************************************************)
(* process_packet_tail: the payload digest loop.  The result tells whether *)
(* the message was digested; if not, which notification the failing branch *)
(* sends, whether the branch asks md->encrypted first (guarded), and       *)
(* whether it read st->st_state through a NULL st (ub).                    *)
(***************************************************************************)
PAYLIMIT == 30

Digested(digest) ==
  [ ok |-> TRUE, digest |-> digest, note |-> "NONE", guarded |-> TRUE,
    why |-> "none", ub |-> FALSE ]

Refused(note, guarded, why, ub) ==
  [ ok |-> FALSE, digest |-> << >>, note |-> note, guarded |-> guarded,
    why |-> why, ub |-> ub ]

v1_payload_desc(np) == np \in DescPayloads

(* every chain is taken as it comes *)
DigestAll(pkt, smc, st, i, needed, digest) == Digested(pkt.chain)

RECURSIVE DigestFrom(_, _, _, _, _, _)
DigestFrom(pkt, smc, st, i, needed, digest) ==
  IF i > Len(pkt.chain)
  THEN IF needed # {}
       THEN Refused("PAYLOAD_MALFORMED", TRUE, "decode", FALSE)
       ELSE Digested(digest)
  ELSE
  LET np0 == pkt.chain[i]
      natt == /\ st # NoState
              /\ ~ conn.aggressive
              /\ np0 \in { "NATD_RFC", "NATOA_RFC" }
              /\ ~ st.nat_t_rfc
      sd == v1_payload_desc(np0) /\ ~ natt
      np == CASE sd -> np0
             [] np0 = "NATD_DRAFTS" -> "NATD_RFC"
             [] np0 = "NATOA_DRAFTS" -> "NATOA_RFC"
             [] OTHER -> np0
      allowed == needed \cup smc.opt_payloads \cup AlwaysAccepted
  IN IF Len(digest) >= PAYLIMIT
     THEN Refused("PAYLOAD_MALFORMED", TRUE, "decode", FALSE)
     ELSE IF ~ sd /\ np0 = "SAK"
     THEN IF pkt.bad = i
          THEN Refused("PAYLOAD_MALFORMED", TRUE, "decode", FALSE)
          ELSE DigestFrom(pkt, smc, st, i + 1, needed, digest)
     ELSE IF ~ sd /\ np0 \notin { "ID", "NATD_DRAFTS", "NATOA_DRAFTS" }
     THEN Refused("INVALID_PAYLOAD_TYPE", TRUE, "decode", FALSE)
     ELSE IF np \notin allowed
     THEN Refused("INVALID_PAYLOAD_TYPE", TRUE, "decode", st = NoState)
     ELSE IF pkt.bad = i
     THEN Refused("PAYLOAD_MALFORMED", TRUE, "decode", FALSE)
     ELSE DigestFrom(pkt, smc, st, i + 1, needed \ {np}, Append(digest, np))

Positions(digest, np) == { i \in DOMAIN digest : digest[i] = np }

(* the k-th payload of a type, in chain order *)
Nth(digest, np, k) ==
  CHOOSE i \in Positions(digest, np) :
    Cardinality({ j \in Positions(digest, np) : j < i }) = k - 1

(* every order of payloads passes *)
AnyOrder(pkt, from_state, digest) == Digested(digest)

(***************************************************************************)
(* process_packet_tail: the ordering constraints on the digested chain.    *)
(***************************************************************************)
OrderingCheck(pkt, from_state, digest) ==
  LET isa_np == IF pkt.chain = << >> THEN "NONE" ELSE pkt.chain[1]
      sa == Positions(digest, "SA")
      id == Positions(digest, "ID")
  IN IF IS_PHASE1(from_state) \/ IS_PHASE15(from_state)
     THEN IF sa # {} /\ isa_np # "SA"
          THEN Refused("PAYLOAD_MALFORMED", TRUE, "order", FALSE)
          ELSE Digested(digest)
     ELSE IF IS_QUICK(from_state)
     THEN IF isa_np # "HASH"
          THEN Refused("PAYLOAD_MALFORMED", TRUE, "order", FALSE)
          ELSE IF \E k \in 1 .. Cardinality(sa) : Nth(digest, "SA", k) # k + 1
          THEN Refused("PAYLOAD_MALFORMED", TRUE, "order", FALSE)
          ELSE IF id # {} /\ Cardinality(id) # 2
          THEN Refused("PAYLOAD_MALFORMED", FALSE, "order", FALSE)
          ELSE IF id # {} /\ Nth(digest, "ID", 1) + 1 # Nth(digest, "ID", 2)
          THEN Refused("PAYLOAD_MALFORMED", FALSE, "order", FALSE)
          ELSE Digested(digest)
     ELSE Digested(digest)

(* check_v1_HASH (ikev1_hash.c) *)
check_v1_HASH(hash_type, pkt) == hash_type = V1_HASH_NONE \/ pkt.hashok


(***************************************************************************)
(* process_packet_tail.                                                    *)
(***************************************************************************)
Reject(w, md, r) ==
  LET w1 == IF r.guarded => ~ md.encrypted
            THEN SEND_NOTIFICATION(w, md.st, r.note)
            ELSE w
  IN Outcome([ w1 EXCEPT !.ev.ub = r.ub ], "reject", r.why)

Complete(f, h) == complete_v1_state_transition(f.w, f.md, f.result, h)

(* history: the message ids of the protected Informational messages that  *)
(* were handed to the handler for this SA                                  *)
Accepted(w, md) ==
  IF md.from_state = "STATE_INFO_PROTECTED" /\ md.st # 0
  THEN [ w EXCEPT !.S[md.st].g_info = @ \cup { md.pkt.msgid } ]
  ELSE w

(* accept_delete (ikev1.c outside src/): a Delete payload counts only in   *)
(* an encrypted message on an established ISAKMP SA; it asks for           *)
(* self-deletion when it names the SA the message arrived on               *)
accept_delete(w, md) ==
  /\ HasPayload(md.pkt, "D")
  /\ md.encrypted
  /\ md.st # 0
  /\ IS_ISAKMP_SA_ESTABLISHED(w.S[md.st].kind)
  /\ md.pkt.ndata = "SELF"

accept_self_delete(w, md) ==
  IF accept_delete(w, md)
  THEN [ w |-> delete_state(w, md.st), md |-> [ md EXCEPT !.st = 0 ] ]
  ELSE [ w |-> w, md |-> md ]

Invoked(d, h) ==
  Complete(processor(Outcome([ d.w EXCEPT !.ev.handler =
                                 v1_state_microcode_table[d.md.smc].processor ],
                             "handler", "none"), d.md, h), h)

Invoke(w, md, h) == Invoked(accept_self_delete(Accepted(w, md), md), h)

Ordered(w, md, h, ordered) ==
  IF ~ ordered.ok THEN Reject(w, md, ordered) ELSE Invoke(w, md, h)

Decoded(w, md, h, smc, digested) ==
  IF ~ digested.ok
  THEN Reject(w, md, digested)
  ELSE IF ~ check_v1_HASH(smc.hash_type, md.pkt)
  THEN Outcome(w, "reject", "hash")
  ELSE Ordered(w, md, h, OrderingCheck(md.pkt, md.from_state, digested.digest))

Decode(w, md, h, smc, st) ==
  Decoded(w, md, h, smc, DigestFrom(md.pkt, smc, st, 1, smc.req_payloads, << >>))

Decrypted(md) ==
  IF md.pkt.enc
  THEN [ md EXCEPT !.encrypted = TRUE, !.raw_packet = md.pkt ]
  ELSE md

TailWith(w, md0, h, smc, st) ==
  IF md0.pkt.enc /\ md0.st = 0
  THEN Outcome(w, "reject", "nokeys")
  ELSE IF md0.pkt.enc /\ ~ st.skeyid_e
  THEN Outcome(w, "reject", "nokeys")
  ELSE IF md0.pkt.enc /\ ~ md0.pkt.blk
  THEN Outcome(w, "reject", "blocksize")
  ELSE IF ~ md0.pkt.enc /\ SMF_INPUT_ENCRYPTED \in smc.flags
  THEN Outcome(SEND_NOTIFICATION(w, md0.st, "INVALID_FLAGS"), "reject", "flags")
  ELSE Decode(w, Decrypted(md0), h, smc, st)

process_packet_tail(w, md0, h) ==
  TailWith(w, md0, h, v1_state_microcode_table[md0.smc],
           IF md0.st = 0 THEN NoState ELSE w.S[md0.st])

(***************************************************************************)
(* process_v1_packet, after the switch: microcode selection, the busy      *)
(* check, duplicate detection, and the wait for SKEYID.                    *)
(***************************************************************************)
XAUTHInitPreShared == 65001

xauth_calcbaseauth(auth) ==
  IF auth = XAUTHInitPreShared THEN OAKLEY_PRESHARED_KEY ELSE auth

(* init_ikev1's consistency check: which transitions must be protected by  *)
(* a HASH payload, and the transitions it logs as lacking the protection   *)
AnyTransition(t) == TRUE

NeedsHash(t) ==
  /\ SMF_FIRST_ENCRYPTED_INPUT \notin t.flags
  /\ SMF_INPUT_ENCRYPTED \in t.flags
  /\ t.processor # "unexpected"

init_ikev1_missing_hash ==
  { i \in TableIndexes :
      /\ NeedsHash(v1_state_microcode_table[i])
      /\ \/ "HASH" \notin v1_state_microcode_table[i].req_payloads
         \/ v1_state_microcode_table[i].hash_type = V1_HASH_NONE }

SelectMicrocode(from_state, baseauth, haveState) ==
  LET first == v1_transitions(from_state)
      fits == { i \in TableIndexes :
                  /\ i >= first
                  /\ \A j \in first .. i : v1_state_microcode_table[j].state = from_state
                  /\ baseauth \in v1_state_microcode_table[i].auth }
  IN IF ~ haveState THEN first
     ELSE IF fits = {} THEN 0
     ELSE MinOf(fits)

(* a dispatcher that never finds the state busy *)
NeverBusy(w, n) == FALSE

verbose_state_busy(w, n) == n # 0 /\ state_is_busy(w.S[n])

Deduped(w, md, h, dup) ==
  IF dup.dup
  THEN Outcome(dup.w, "duplicate", "none")
  ELSE IF md.pkt.enc /\ md.st # 0 /\ ~ w.S[md.st].skeyid_calculated
  THEN Outcome(suspend_md(w, md), "parked", "none")
  ELSE process_packet_tail(w, md, h)

Routed(w, md, h) ==
  IF md.smc = 0
  THEN Crash(w, "passert")
  ELSE IF verbose_state_busy(w, md.st)
  THEN Outcome(w, "busy", "none")
  ELSE Deduped(w, md, h, ikev1_duplicate(w, md.st, md.pkt))

Selected(w, d, pkt, h, smc) ==
  Routed([ w EXCEPT !.ev.st = d.st, !.ev.from_state = d.from_state,
                    !.ev.smc = smc, !.ev.routed = d.st ],
         [ NoMd EXCEPT !.pkt = pkt, !.st = d.st, !.from_state = d.from_state,
                       !.smc = smc, !.new_iv_set = d.new_iv_set ], h)

Dispatch(w, d, pkt, h) ==
  Selected(w, d, pkt, h,
           SelectMicrocode(d.from_state,
                           IF d.st = 0 THEN 0 ELSE xauth_calcbaseauth(w.S[d.st].auth),
                           d.st # 0))

(***************************************************************************)
(* process_v1_packet, IKE fragments: the sorted list st_v1_rfrags and the  *)
(* reassembly of a complete list.                                          *)
(***************************************************************************)
Frag(pkt) == [ index |-> pkt.frag.number, last |-> pkt.frag.last,
               data |-> pkt.frag.data ]

(* a list insertion that ignores the order of the indices *)
PushFragment(frags, f) == << f >> \o frags

RECURSIVE InsertFragment(_, _)
InsertFragment(frags, f) ==
  IF frags = << >> \/ Head(frags).index > f.index
  THEN << f >> \o frags
  ELSE IF Head(frags).index = f.index
  THEN << f >> \o Tail(frags)
  ELSE << Head(frags) >> \o InsertFragment(Tail(frags), f)

RECURSIVE LastFragIndex(_, _)
LastFragIndex(frags, sofar) ==
  IF frags = << >> THEN sofar
  ELSE LastFragIndex(Tail(frags), IF Head(frags).last THEN Head(frags).index
                                                      ELSE sofar)

(* the walk that looks for index 1, 2, .. up to the last fragment *)
RECURSIVE ListComplete(_, _, _)
ListComplete(frags, prev_index, last_frag_index) ==
  IF frags = << >> THEN FALSE
  ELSE IF Head(frags).index # prev_index + 1 THEN FALSE
  ELSE IF Head(frags).index = last_frag_index THEN TRUE
  ELSE ListComplete(Tail(frags), prev_index + 1, last_frag_index)

RECURSIVE Reassemble(_, _)
Reassemble(frags, last_frag_index) ==
  IF frags = << >> \/ Head(frags).index > last_frag_index
  THEN << >>
  ELSE Head(frags).data \o Reassemble(Tail(frags), last_frag_index)

RECURSIVE process_v1_packet(_, _, _)

process_packet(w, bytes, h) ==
  IF ~ HeaderParses(bytes)
  THEN Outcome(w, "reject", "header")
  ELSE process_v1_packet(w, ParseHeader(bytes), h)

Released(w, n, buffer) ==
  IF w.crashed
  THEN w
  ELSE IF w.S[n] = NoState
  THEN [ w EXCEPT !.ev.ub = TRUE ]
  ELSE [ w EXCEPT !.S[n].rfrags = << >>, !.S[n].seen_fragments = TRUE ]

Reassembled(w, n, h, buffer) ==
  Released([ process_packet(w, buffer, h) EXCEPT !.ev.reassembled = buffer,
                                                 !.ev.whole = TRUE ], n, buffer)

Listed(w, n, h, frags, last_frag_index) ==
  IF last_frag_index # 0 /\ ListComplete(frags, 0, last_frag_index)
  THEN Reassembled(w, n, h, Reassemble(frags, last_frag_index))
  ELSE w

Inserted(w, n, pkt, h, frags) ==
  Listed(Outcome([ w EXCEPT !.S[n].rfrags = frags, !.ev.st = n,
                            !.ev.fragment = pkt, !.ev.frag_st = n ],
                 "fragment", "none"),
         n, h, frags, LastFragIndex(frags, 0))

Fragments(w, n, pkt, h) ==
  IF n = 0
  THEN Outcome(w, "reject", "fragment")
  ELSE IF ~ conn.ike_frag_allow
  THEN Outcome([ w EXCEPT !.ev.st = n ], "reject", "fragment")
  ELSE IF \/ ~ pkt.frag.ok
          \/ pkt.frag.number = 0
          \/ pkt.frag.number > MAX_IKE_FRAGMENTS
  THEN Outcome(SEND_NOTIFICATION([ w EXCEPT !.ev.st = n ], n, "PAYLOAD_MALFORMED"),
               "reject", "fragment")
  ELSE Inserted(w, n, pkt, h, InsertFragment(w.S[n].rfrags, Frag(pkt)))

Demuxed(d, pkt, h) ==
  IF d.ret THEN d.w
  ELSE IF IsFragment(pkt) THEN Fragments(d.w, d.st, pkt, h)
  ELSE Dispatch(d.w, d, pkt, h)

process_v1_packet(w, pkt, h) ==
  Demuxed(Demux([ w EXCEPT !.ev.pkt = pkt, !.ev.by = "packet" ], pkt), pkt, h)


(***************************************************************************)
(* Connections (struct connection and the negotiated facts the engine      *)
(* reads from it).  Lifetimes and margins are in seconds.                  *)
(***************************************************************************)
PlainConn ==
  [ xauth_server |-> FALSE, xauth_client |-> FALSE,
    modecfg_server |-> FALSE, modecfg_client |-> FALSE,
    aggressive |-> FALSE, modecfg_pull |-> FALSE, dont_rekey |-> FALSE,
    ike_frag_allow |-> TRUE, xauth_ack_msgid |-> FALSE, nortel |-> FALSE,
    nat_t_rfc |-> FALSE, auth |-> OAKLEY_PRESHARED_KEY,
    sa_ike_life |-> 3600, sa_ipsec_life |-> 28800, sa_rekey_margin |-> 540,
    sa_rekey_fuzz |-> 0, r_timeout |-> 60,
    peer_ike_life |-> 3600, peer_ipsec_life |-> 28800, peer_esp |-> TRUE,
    peer_ah |-> [ present |-> FALSE, life |-> 0 ],
    peer_ipcomp |-> [ present |-> FALSE, life |-> 0 ],
    that_host_addr |-> "OLD" ]

(***************************************************************************)
(* ikev1_decode_peer_id.  The connection table (connections.c) is a        *)
(* sequence of connections, cur is the one the SA is bound to              *)
(* (st->st_connection).  A connection expects the peer ID that_id: a name, *)
(* ID_NONE (any peer, one wildcard) or ID_FROMCERT.                        *)
(***************************************************************************)
NoConnections == [ table |-> << >>, cur |-> 0 ]

PeerNames == { "east", "west" }

same_id(a, b) == a = b

(* v1_process_certs (x509.c): the certificate's subject against the ID the *)
(* connection expects                                                      *)
v1_process_certs(c, in) ==
  CASE in.cert = "NONE" -> "LSW_CERT_NONE"
    [] in.cert = "BAD" -> "LSW_CERT_BAD"
    [] c.that_id \in { in.cert, "ID_NONE", "ID_FROMCERT" } -> "LSW_CERT_ID_OK"
    [] OTHER -> "LSW_CERT_MISMATCHED_ID"

(* refine_host_connection (connections.c): the starting point if it names  *)
(* the peer, else the best connection of the right authentication policy   *)
(* whose expected ID matches the peer: fewest wildcards, first in the      *)
(* table; 0 when none matches                                              *)
MatchesPeer(d, in, policy) ==
  /\ d.policy = policy
  /\ \/ d.that_id \in { in.peer, "ID_NONE" }
     \/ d.that_id = "ID_FROMCERT" /\ in.cert = in.peer

Wildcards(d) == IF d.that_id = "ID_NONE" THEN 1 ELSE 0

BestMatches(C, in, policy) ==
  LET found == { i \in DOMAIN C.table : MatchesPeer(C.table[i], in, policy) }
  IN { i \in found :
         \A j \in found : Wildcards(C.table[i]) <= Wildcards(C.table[j]) }

refine_host_connection(C, in, policy) ==
  IF same_id(C.table[C.cur].that_id, in.peer)
  THEN [ r |-> C.cur, fromcert |-> FALSE ]
  ELSE IF BestMatches(C, in, policy) = {}
  THEN [ r |-> 0, fromcert |-> FALSE ]
  ELSE [ r |-> MinOf(BestMatches(C, in, policy)),
         fromcert |-> C.table[MinOf(BestMatches(C, in, policy))].that_id
                        = "ID_FROMCERT" ]

(* rw_instantiate (connections.c): an instance of the template for the peer *)
rw_instantiate(d, peer) ==
  [ d EXCEPT !.that_id = peer, !.kind = "CK_INSTANCE", !.has_id_wildcards = FALSE ]

duplicate_id(C, peer) == [ C EXCEPT !.table[C.cur].that_id = peer ]

IdDecoded(C, ok, depth) == [ C |-> C, ok |-> ok, depth |-> depth, full |-> FALSE ]

(* the table has no room for the instance *)
TableFull(C, depth) == [ C |-> C, ok |-> FALSE, depth |-> depth, full |-> TRUE ]

(* still re-entering at the bound of the model *)
TooDeep(C, depth) == [ C |-> C, ok |-> FALSE, depth |-> depth + 1, full |-> FALSE ]

(* the peer's ID against the connection the initiator chose *)
CheckInitiator(C, in, depth) ==
  LET c == C.table[C.cur]
  IN IF /\ ~ in.peer_alt_id
        /\ ~ same_id(c.that_id, in.peer)
        /\ c.that_id # "ID_FROMCERT"
     THEN IdDecoded(C, FALSE, depth)
     ELSE IF c.that_id = "ID_FROMCERT"
     THEN IF ~ in.peer_is_dn
          THEN IdDecoded(C, FALSE, depth)
          ELSE IdDecoded(duplicate_id(C, in.peer), TRUE, depth)
     ELSE IdDecoded(C, TRUE, depth)

AuthPolicy(auth) ==
  CASE auth = OAKLEY_PRESHARED_KEY -> "POLICY_PSK"
    [] auth = OAKLEY_RSA_SIG -> "POLICY_RSASIG"
    [] OTHER -> NULL

(* the connection the responder ends up with: r, or an instance of it *)
Switched(C, r, peer) ==
  IF C.table[r].kind \in { "CK_TEMPLATE", "CK_GROUP" }
  THEN [ table |-> Append(C.table, rw_instantiate(C.table[r], peer)),
         cur |-> Len(C.table) + 1 ]
  ELSE [ C EXCEPT !.cur = r ]

NeedsInstance(C, r) ==
  /\ C.table[r].kind \in { "CK_TEMPLATE", "CK_GROUP" }
  /\ Len(C.table) >= MaxConns

(* the connection is kept: wildcards in its ID are replaced by the peer's  *)
Kept(C, in, fromcert, depth) ==
  IF C.table[C.cur].has_id_wildcards
  THEN IdDecoded([ duplicate_id(C, in.peer) EXCEPT
                   !.table[C.cur].has_id_wildcards = FALSE ], TRUE, depth)
  ELSE IF fromcert
  THEN IdDecoded(duplicate_id(C, in.peer), TRUE, depth)
  ELSE IdDecoded(C, TRUE, depth)

(* r is not the connection the SA is bound to: every connection is better *)
AlwaysBetter(r, cur) == TRUE

BetterFound(r, cur) == r # cur

RECURSIVE ikev1_decode_peer_id(_, _, _, _, _)
ikev1_decode_peer_id(C0, in, initiator, aggrmode, depth) ==
  LET C == IF C0.table[C0.cur].that_id = "ID_FROMCERT"
           THEN duplicate_id(C0, in.peer)
           ELSE C0
      c == C.table[C.cur]
      ret == v1_process_certs(c, in)
      found == refine_host_connection(C, in, AuthPolicy(in.auth))
      r == IF found.r = 0 THEN C.cur ELSE found.r
  IN IF ~ in.extract_ok
     THEN IdDecoded(C0, FALSE, depth)
     ELSE IF ret = "LSW_CERT_BAD"
     THEN IdDecoded(C, FALSE, depth)
     ELSE IF ret = "LSW_CERT_MISMATCHED_ID" /\ (initiator \/ aggrmode)
     THEN IdDecoded(C, FALSE, depth)
     ELSE IF initiator
     THEN CheckInitiator(C, in, depth)
     ELSE IF aggrmode
     THEN IdDecoded(C, TRUE, depth)
     ELSE IF AuthPolicy(in.auth) = NULL
     THEN IdDecoded(C, FALSE, depth)
     ELSE IF /\ found.r = 0
             /\ ~ in.peer_alt_id
             /\ ~ same_id(c.that_id, in.peer)
             /\ c.that_id # "ID_FROMCERT"
     THEN IdDecoded(C, FALSE, depth)
     ELSE IF BetterFound(r, C.cur)
     THEN IF depth >= MaxDepth
          THEN TooDeep(C, depth)
          ELSE IF NeedsInstance(C, r)
          THEN TableFull(C, depth)
          ELSE ikev1_decode_peer_id(Switched(C, r, in.peer), in, FALSE, FALSE,
                                    depth + 1)
     ELSE Kept(C, in, found.fromcert, depth)

(***************************************************************************)
(* Actions.                                                                *)
(***************************************************************************)
InitWith(conns) ==
  /\ conn \in conns
  /\ sas = [ n \in Serials |-> NoState ]
  /\ nserial = 0
  /\ sent = << >>
  /\ crashed = FALSE
  /\ last = NoEvent
  /\ connections = NoConnections

(* the step ran into undefined behaviour: the daemon may stop there *)
Land(w) ==
  /\ ~ w.ev.full
  /\ \E stop \in IF w.ev.ub THEN BOOLEAN ELSE { FALSE } :
       /\ crashed' = (w.crashed \/ stop)
       /\ sent' = IF stop THEN << >> ELSE w.sent
       /\ sas' = w.S
       /\ nserial' = w.n
       /\ last' = w.ev
       /\ conn' = IF w.ev.new_peer = NULL
                  THEN conn
                  ELSE [ conn EXCEPT !.that_host_addr = w.ev.new_peer ]
       /\ connections' = connections

(* a datagram arrives: process_packet.  The transition function's decision *)
(* is drawn from H when the engine gets as far as calling one.             *)
NoOracle == [ result |-> STF_IGNORE, alt |-> FALSE, gen |-> 1 ]

Receive(pkt, H) ==
  /\ ~ crashed
  /\ LET w0 == process_v1_packet(World(sas, nserial), pkt, NoOracle)
     IN IF w0.ev.handler = NULL
        THEN Land(w0)
        ELSE \E h \in H : Land(process_v1_packet(World(sas, nserial), pkt, h))

(* a crypto helper finishes for state n and its continuation runs *)
HelperDone(n, H) ==
  /\ ~ crashed
  /\ Exists(sas, n)
  /\ sas[n].offloaded_task \/ sas[n].dh_background
  /\ LET st == sas[n]
         md == st.suspended_md
         w == [ World(sas, nserial) EXCEPT !.ev.by = "helper",
                                           !.ev.pkt = md.pkt, !.ev.st = n,
                                           !.ev.routed = n,
                                           !.ev.from_state = md.from_state,
                                           !.ev.smc = md.smc ]
         resumed == [ w EXCEPT !.S[n].offloaded_task = FALSE,
                               !.S[n].suspended_md = NoMd ]
         keyed == [ w EXCEPT !.S[n].dh_background = FALSE,
                             !.S[n].skeyid_calculated = TRUE,
                             !.S[n].skeyid_e = TRUE,
                             !.S[n].suspended_md = NoMd ]
         w0 == process_packet_tail(keyed, md, NoOracle)
     IN IF st.offloaded_task
        THEN IF md = NoMd
             THEN Land(Outcome(resumed, "helper", "none"))
             ELSE \E h \in H : Land(Invoke(resumed, md, h))
        ELSE IF md = NoMd
             THEN Land(Outcome(keyed, "helper", "none"))
             ELSE IF w0.ev.handler = NULL
             THEN Land(w0)
             ELSE \E h \in H : Land(process_packet_tail(keyed, md, h))

(* EVENT_v1_SEND_XAUTH fires for state n: xauth_send_request (ikev1_xauth.c) *)
xauth_send_request(w, n, gen) ==
  [ w EXCEPT !.S[n].send_xauth_event = FALSE,
             !.S[n].kind = "STATE_XAUTH_R0",
             !.S[n].phase15 = gen,
             !.S[n].tpacket = Request(w.S[n], "MODE_CFG", gen),
             !.ev.st = n, !.ev.by = "timer",
             !.sent = Append(@, Transmission("request",
                                Request(w.S[n], "MODE_CFG", gen), n)) ]

SendXauth(n, gen) ==
  /\ ~ crashed
  /\ Exists(sas, n)
  /\ sas[n].send_xauth_event
  /\ ~ state_is_busy(sas[n])
  /\ Land(Outcome(xauth_send_request(World(sas, nserial), n, gen), "timer", "none"))

(* the XAUTH authentication started by xauth_inR0 succeeds for state n:     *)
(* xauth_send_status (ikev1_xauth.c)                                       *)
xauth_send_status(w, n, gen) ==
  [ w EXCEPT !.S[n].xauth_launched = FALSE,
             !.S[n].kind = "STATE_XAUTH_R1",
             !.S[n].phase15 = gen,
             !.S[n].tpacket = Request(w.S[n], "MODE_CFG", gen),
             !.ev.st = n, !.ev.by = "thread",
             !.sent = Append(@, Transmission("request",
                                Request(w.S[n], "MODE_CFG", gen), n)) ]

XauthStatus(n, gen) ==
  /\ ~ crashed
  /\ Exists(sas, n)
  /\ sas[n].xauth_launched
  /\ Land(Outcome(xauth_send_status(World(sas, nserial), n, gen), "thread", "none"))

(* ipsec auto --up (initiate.c): with no ISAKMP SA of our own the daemon    *)
(* starts Main Mode and queues the Quick Mode negotiation on the new SA;   *)
(* with one still negotiating the Quick Mode joins its queue; with one     *)
(* established Quick Mode starts at once under an unused message id.       *)
OwnIsakmpSa(S) == find_state_ikev1_init(S, LCookie, v1_MAINMODE_MSGID)

FirstRequest(st) ==
  [ NoPacket EXCEPT !.xchg = IF conn.aggressive THEN "AGGR" ELSE "IDPROT",
                    !.icookie = st.icookie, !.ntype = "REQUEST" ]

main_outI1(w) ==
  IF w.n < MaxSerial
  THEN [ initiate_connection(w) EXCEPT
           !.S[w.n + 1].pending = << 1 >>,
           !.S[w.n + 1].tpacket = FirstRequest(@),
           !.ev.st = w.n + 1,
           !.sent = Append(@, Transmission("request",
                              FirstRequest(initiate_connection(w).S[w.n + 1]),
                              w.n + 1)) ]
  ELSE [ w EXCEPT !.ev.full = TRUE ]

add_pending(w, n) ==
  IF Len(w.S[n].pending) < MaxPending
  THEN [ w EXCEPT !.S[n].pending = Append(@, Len(@) + 1), !.ev.st = n ]
  ELSE [ w EXCEPT !.ev.full = TRUE ]

UnusedMsgid(S, n, msgid) ==
  /\ unique_msgid(S[n], msgid)
  /\ \A m \in Serials :
       Exists(S, m) /\ S[m].clonedfrom = n => S[m].msgid # msgid

Up(H) ==
  /\ ~ crashed
  /\ LET w == [ World(sas, nserial) EXCEPT !.ev.by = "whack" ]
         ike == OwnIsakmpSa(sas)
     IN IF ike = 0
        THEN Land(main_outI1(w))
        ELSE IF ~ IS_ISAKMP_SA_ESTABLISHED(sas[ike].kind)
        THEN Land(add_pending(w, ike))
        ELSE \E h \in H :
               /\ UnusedMsgid(sas, ike, h.gen)
               /\ Land(quick_outI1([ w EXCEPT !.ev.st = ike ], ike, h))

(***************************************************************************)
(* Main Mode and Quick Mode responder, pre-shared keys.                    *)
(***************************************************************************)
MainPackets ==
  { Pkt("IDPROT", 1, 0, 0, FALSE, << "SA" >>, 0),
    Pkt("IDPROT", 1, 1, 0, FALSE, << "KE", "NONCE" >>, 0),
    Pkt("IDPROT", 1, 1, 0, TRUE, << "ID", "HASH" >>, 0),
    Pkt("QUICK", 1, 1, 1, TRUE, << "HASH", "SA", "NONCE" >>, 0),
    Pkt("QUICK", 1, 1, 1, TRUE, << "HASH" >>, 0),
    Pkt("QUICK", 1, 1, 1, TRUE, << "HASH" >>, 1) }

InitMain == InitWith({ PlainConn })

MainOracles == { h \in Oracles : h.gen = 1 }

NextMain ==
  \/ \E pkt \in MainPackets : Receive(pkt, MainOracles)
  \/ \E n \in Serials : HelperDone(n, MainOracles)

SpecMain == InitMain /\ [][NextMain]_vars

(***************************************************************************)
(* The payload decoder: every chain of up to MaxChain payloads over a      *)
(* small alphabet arrives as an initial Main Mode message and as a         *)
(* plaintext Informational for an unknown SPI pair; Quick Mode messages    *)
(* with right and wrong chains arrive on an established ISAKMP SA.         *)
(***************************************************************************)
ChainsUpTo(alphabet, k) == UNION { [ 1 .. m -> alphabet ] : m \in 0 .. k }

DecodeAlphabet == { "SA", "KE", "PRIVATE" }

Malformed(pkt, i) == [ pkt EXCEPT !.bad = i ]

QuickChains ==
  { << "HASH", "SA", "NONCE" >>,
    << "HASH", "SA", "NONCE", "ID" >>,
    << "HASH", "SA", "NONCE", "ID", "ID" >>,
    << "HASH", "SA", "NONCE", "ID", "KE", "ID" >>,
    << "HASH", "NONCE", "SA" >>,
    << "HASH", "SA" >>,
    << "HASH", "SA", "NONCE", "PRIVATE" >>,
    << "HASH", "SA", "NONCE", "SIG" >>,
    << "HASH", "SAK", "SA", "NONCE" >> }

DecodePackets ==
  { Pkt("IDPROT", 1, 0, 0, FALSE, c, 0) : c \in ChainsUpTo(DecodeAlphabet, MaxChain) }
  \cup { Pkt("INFO", 2, 2, 0, FALSE, c, 0) : c \in ChainsUpTo({ "SA", "PRIVATE" }, MaxChain) }
  \cup { Pkt("AGGR", 1, 0, 0, FALSE, c, 0) :
           c \in { << "SA", "KE", "NONCE", "ID" >>, << "SA", "KE", "NONCE", "ID", "HASH" >>,
                   << "SA", "PRIVATE" >> } }
  \cup { Malformed(Pkt("IDPROT", 1, 0, 0, FALSE, << "SA", "VID" >>, 0), 2),
         Pkt("IDPROT", 1, 1, 0, FALSE, << "KE", "NONCE" >>, 0),
         Pkt("IDPROT", 1, 1, 0, FALSE, << "KE", "NONCE", "SA" >>, 0),
         Pkt("IDPROT", 1, 1, 0, FALSE, << "KE", "SAK", "NONCE" >>, 0),
         Pkt("IDPROT", 1, 1, 0, FALSE, << "KE", "NONCE", "NATD_DRAFTS" >>, 0),
         Pkt("IDPROT", 1, 1, 0, TRUE, << "ID", "HASH" >>, 0),
         Pkt("IDPROT", 1, 1, 0, TRUE, << "ID", "SIG" >>, 0),
         Malformed(Pkt("IDPROT", 1, 1, 0, TRUE, << "ID", "HASH" >>, 0), 1) }
  \cup { Pkt("QUICK", 1, 1, 1, TRUE, c, 0) : c \in QuickChains }
  \cup { Malformed(Pkt("QUICK", 1, 1, 1, TRUE, << "HASH", "SA", "NONCE" >>, 0), 3) }

DecodeOracles ==
  { h \in Oracles : h.result \in { STF_OK, STF_IGNORE } /\ h.alt /\ h.gen = 1 }

InitDecode == InitWith({ PlainConn })

NextDecode == \E pkt \in DecodePackets : Receive(pkt, DecodeOracles)

SpecDecode == InitDecode /\ [][NextDecode]_vars

(***************************************************************************)
(* XAUTH and Mode Config: the responder of a Main Mode exchange on a       *)
(* connection that is XAUTH and Mode Config server (push mode, Nortel      *)
(* workaround), XAUTH client, Mode Config client (pull mode), or none of   *)
(* these, followed by Mode Config and Quick Mode messages.                 *)
(***************************************************************************)
ServerConn ==
  [ PlainConn EXCEPT !.xauth_server = TRUE, !.modecfg_server = TRUE,
                     !.nortel = TRUE ]

XauthClientConn == [ PlainConn EXCEPT !.xauth_client = TRUE ]

ModecfgClientConn ==
  [ PlainConn EXCEPT !.modecfg_client = TRUE, !.modecfg_pull = TRUE ]

CfgConns == { PlainConn, ServerConn, XauthClientConn, ModecfgClientConn }

BadHash(pkt) == [ pkt EXCEPT !.hashok = FALSE ]

CfgPackets ==
  { Pkt("IDPROT", 1, 0, 0, FALSE, << "SA", "VID" >>, 0),
    Pkt("IDPROT", 1, 1, 0, FALSE, << "KE", "NONCE" >>, 0),
    Pkt("IDPROT", 1, 1, 0, TRUE, << "ID", "HASH" >>, 0),
    Pkt("QUICK", 1, 1, 1, TRUE, << "HASH", "SA", "NONCE" >>, 0),
    BadHash(Pkt("QUICK", 1, 1, 1, TRUE, << "HASH", "SA", "NONCE" >>, 0)) }
  \cup { Pkt("MODE_CFG", 1, 1, m, TRUE, << "HASH", "MCFG_ATTR" >>, 0) :
           m \in 1 .. MaxMsgid }

CfgOracles ==
  { h \in Oracles : h.result \in { STF_OK, STF_IGNORE, STF_FAIL } }

InitCfg == InitWith(CfgConns)

NextCfg ==
  \/ \E pkt \in CfgPackets : Receive(pkt, CfgOracles)
  \/ \E n \in Serials : HelperDone(n, CfgOracles)
  \/ \E n \in Serials, gen \in 1 .. MaxMsgid : SendXauth(n, gen)
  \/ \E n \in Serials, gen \in 1 .. MaxMsgid : XauthStatus(n, gen)

SpecCfg == InitCfg /\ [][NextCfg]_vars

(***************************************************************************)
(* IKE fragmentation: after the first two Main Mode messages the third     *)
(* arrives cut into 1 .. MaxFrag fragments, the fragments of the different *)
(* cuts in any order and mixed with malformed fragments, on a connection   *)
(* that allows fragmentation or one that does not.                         *)
(***************************************************************************)
NoFragConn == [ PlainConn EXCEPT !.ike_frag_allow = FALSE ]

FragMessages ==
  { Pkt("IDPROT", 1, 1, 0, TRUE, << "ID", "HASH" >>, 0) }

PieceLen(bytes, N) == (Len(bytes) + N - 1) \div N

(* piece i of the bytes cut into N pieces *)
Piece(bytes, i, N) ==
  SubSeq(bytes, (i - 1) * PieceLen(bytes, N) + 1,
         IF i * PieceLen(bytes, N) < Len(bytes) THEN i * PieceLen(bytes, N)
                                                ELSE Len(bytes))

FragmentOf(msg, id, number, islast, data) ==
  [ Pkt(msg.xchg, msg.icookie, msg.rcookie, 0, FALSE, << >>, 0) EXCEPT
      !.frag = [ id |-> id, number |-> number, last |-> islast, ok |-> TRUE,
                 data |-> data ] ]

Fragment(msg, i, N) == FragmentOf(msg, 1, i, i = N, Piece(Serialize(msg), i, N))

BadFragments ==
  { FragmentOf(Pkt("IDPROT", 1, 1, 0, FALSE, << >>, 0), 1, k, FALSE, << >>) :
      k \in { 0, MAX_IKE_FRAGMENTS + 1 } }
  \cup { [ FragmentOf(Pkt("IDPROT", 1, 1, 0, FALSE, << >>, 0), 1, 1, FALSE, << >>)
            EXCEPT !.frag.ok = FALSE ],
          FragmentOf(Pkt("IDPROT", 2, 2, 0, FALSE, << >>, 0), 1, 1, TRUE, << >>) }

FragPackets ==
  { Pkt("IDPROT", 1, 0, 0, FALSE, << "SA", "VID" >>, 0),
    Pkt("IDPROT", 1, 1, 0, FALSE, << "KE", "NONCE" >>, 0) }
  \cup UNION { { Fragment(msg, i, N) : msg \in FragMessages, i \in 1 .. N } :
                N \in 1 .. MaxFrag }
  \cup BadFragments

FragOracles ==
  { h \in Oracles : h.result \in { STF_OK, STF_IGNORE } /\ h.gen = 1 }

InitFrag == InitWith({ PlainConn, NoFragConn })

NextFrag ==
  \/ \E pkt \in FragPackets : Receive(pkt, FragOracles)
  \/ \E n \in Serials : HelperDone(n, FragOracles)

SpecFrag == InitFrag /\ [][NextFrag]_vars

(***************************************************************************)
(* Authentication classes: Main Mode and Aggressive Mode responder on      *)
(* connections whose negotiated authentication method is any of the five   *)
(* Oakley methods of the four classes PSK, DS, PKE and RPKE.               *)
(***************************************************************************)
BaseAuths ==
  SMF_PSK_AUTH \cup SMF_DS_AUTH \cup SMF_PKE_AUTH \cup SMF_RPKE_AUTH

AuthConns == { [ PlainConn EXCEPT !.auth = a ] : a \in BaseAuths }

AuthPackets ==
  { Pkt("IDPROT", 1, 0, 0, FALSE, << "SA" >>, 0),
    Pkt("IDPROT", 1, 1, 0, FALSE, << "KE", "NONCE" >>, 0),
    Pkt("IDPROT", 1, 1, 0, TRUE, << "ID", "HASH" >>, 0),
    Pkt("IDPROT", 1, 1, 0, TRUE, << "ID", "SIG" >>, 0),
    Pkt("AGGR", 1, 0, 0, FALSE, << "SA", "KE", "NONCE", "ID" >>, 0),
    Pkt("AGGR", 1, 1, 0, TRUE, << "HASH" >>, 0),
    Pkt("AGGR", 1, 1, 0, TRUE, << "SIG" >>, 0) }

AuthOracles == { h \in Oracles : h.result = STF_OK /\ h.gen = 1 }

InitAuth == InitWith(AuthConns)

NextAuth ==
  \/ \E pkt \in AuthPackets : Receive(pkt, AuthOracles)
  \/ \E n \in Serials : HelperDone(n, AuthOracles)

SpecAuth == InitAuth /\ [][NextAuth]_vars

(***************************************************************************)
(* Informational exchanges: after the Main Mode handshake the peer sends   *)
(* encrypted and plaintext Informational messages carrying notifications   *)
(* and deletes under the message ids 0 .. MaxMsgid, and a Quick Mode       *)
(* message under one of these message ids.                                 *)
(***************************************************************************)
Notify(pkt, ntype, ndata) == [ pkt EXCEPT !.ntype = ntype, !.ndata = ndata ]

NotifyTypes ==
  { << "R_U_THERE", "NONE" >>, << "PAYLOAD_MALFORMED", "NONE" >>,
    << "CISCO_LOAD_BALANCE", "PEER" >>, << "CISCO_LOAD_BALANCE", "ANY" >> }

InfoPackets ==
  { Pkt("IDPROT", 1, 0, 0, FALSE, << "SA" >>, 0),
    Pkt("IDPROT", 1, 1, 0, FALSE, << "KE", "NONCE" >>, 0),
    Pkt("IDPROT", 1, 1, 0, TRUE, << "ID", "HASH" >>, 0),
    Pkt("INFO", 1, 1, 0, TRUE, << "HASH", "D" >>, 0),
    Notify(Pkt("INFO", 1, 1, 1, TRUE, << "HASH", "D" >>, 0), "NONE", "SELF"),
    Pkt("INFO", 1, 1, 0, FALSE, << "N" >>, 0) }
  \cup { Notify(Pkt("INFO", 1, 1, 1, TRUE, << "HASH", "N" >>, 0), t[1], t[2]) :
           t \in NotifyTypes }
  \cup { Notify(Pkt("INFO", 1, 1, m, TRUE, << "HASH", "N" >>, 0),
                 "PAYLOAD_MALFORMED", "NONE") : m \in 1 .. MaxMsgid }
  \cup { Pkt("QUICK", 1, 1, 1, TRUE, << "HASH", "SA", "NONCE" >>, 0) }

InfoOracles ==
  { h \in Oracles : h.result \in { STF_OK, STF_IGNORE } /\ h.gen = 1 }

InitInfo == InitWith({ PlainConn })

NextInfo ==
  \/ \E pkt \in InfoPackets : Receive(pkt, InfoOracles)
  \/ \E n \in Serials : HelperDone(n, InfoOracles)

SpecInfo == InitInfo /\ [][NextInfo]_vars

(***************************************************************************)
(* Crypto helpers: a Main Mode responder whose transition functions may    *)
(* suspend on a helper request or leave the DH computation running between *)
(* states, while the peer sends the handshake, encrypted messages that     *)
(* cannot be decrypted yet, and plaintext Informational messages.          *)
(***************************************************************************)
HelperPackets ==
  { Pkt("IDPROT", 1, 0, 0, FALSE, << "SA" >>, 0),
    Pkt("IDPROT", 1, 1, 0, FALSE, << "KE", "NONCE" >>, 0),
    Pkt("IDPROT", 1, 1, 0, TRUE, << "ID", "HASH" >>, 0),
    Pkt("IDPROT", 1, 1, 0, TRUE, << "ID", "HASH" >>, 1),
    Notify(Pkt("INFO", 1, 1, 0, FALSE, << "N" >>, 0), "INVALID_SPI", "NONE"),
    Notify(Pkt("INFO", 1, 1, 1, TRUE, << "HASH", "N" >>, 0), "INVALID_SPI", "NONE") }

HelperOracles == { h \in Oracles : h.gen = 1 }

InitHelper == InitWith({ PlainConn })

NextHelper ==
  \/ \E pkt \in HelperPackets : Receive(pkt, HelperOracles)
  \/ \E n \in Serials : HelperDone(n, HelperOracles)

SpecHelper == InitHelper /\ [][NextHelper]_vars

(***************************************************************************)
(* Notifications with an effect: during and after the Main Mode handshake  *)
(* the peer sends PAYLOAD_MALFORMED notifications and CISCO_LOAD_BALANCE   *)
(* notifications whose data is too short, ends in the all-zero address, or *)
(* names a new peer, encrypted and in plaintext.                           *)
(***************************************************************************)
LoadBalanceData == { "NONE", "ANY", "PEER" }

NotifyPackets ==
  { Pkt("IDPROT", 1, 0, 0, FALSE, << "SA" >>, 0),
    Pkt("IDPROT", 1, 1, 0, FALSE, << "KE", "NONCE" >>, 0),
    Pkt("IDPROT", 1, 1, 0, TRUE, << "ID", "HASH" >>, 0),
    Notify(Pkt("INFO", 1, 1, 0, FALSE, << "N" >>, 0), "CISCO_LOAD_BALANCE", "PEER"),
    Notify(Pkt("INFO", 1, 1, 1, TRUE, << "HASH", "N" >>, 0), "PAYLOAD_MALFORMED", "NONE") }
  \cup { Notify(Pkt("INFO", 1, 1, 1, TRUE, << "HASH", "N" >>, 0),
                 "CISCO_LOAD_BALANCE", d) : d \in LoadBalanceData }

NotifyOracles ==
  { h \in Oracles : h.result \in { STF_OK, STF_IGNORE } /\ h.gen = 1 }

InitNotify == InitWith({ PlainConn })

NextNotify ==
  \/ \E pkt \in NotifyPackets : Receive(pkt, NotifyOracles)
  \/ \E n \in Serials : HelperDone(n, NotifyOracles)

SpecNotify == InitNotify /\ [][NextNotify]_vars

(***************************************************************************)
(* Main Mode and Quick Mode initiator: the operator brings the connection  *)
(* up, once or several times, and the peer's three Main Mode replies and   *)
(* its Quick Mode replies arrive in any order and any number of times.     *)
(***************************************************************************)
PendingPackets ==
  { Pkt("IDPROT", LCookie, 1, 0, FALSE, << "SA" >>, 0),
    Pkt("IDPROT", LCookie, 1, 0, FALSE, << "KE", "NONCE" >>, 0),
    Pkt("IDPROT", LCookie, 1, 0, TRUE, << "ID", "HASH" >>, 0) }
  \cup { Pkt("QUICK", LCookie, 1, m, TRUE, << "HASH", "SA", "NONCE" >>, 0) :
           m \in 1 .. MaxMsgid }

PendingOracles ==
  { h \in Oracles : h.result \in { STF_OK, STF_IGNORE, STF_FAIL } /\ h.alt }

InitPending == InitWith({ PlainConn })

NextPending ==
  \/ Up(PendingOracles)
  \/ \E pkt \in PendingPackets : Receive(pkt, PendingOracles)

SpecPending == InitPending /\ [][NextPending]_vars

(***************************************************************************)
(* Loss-free Main Mode in both roles.  The daemon initiates one exchange   *)
(* (its cookie is LCookie) and answers another that the peer initiates     *)
(* (the peer's cookie is 1).  The peer loses nothing and repeats nothing:  *)
(* each of its messages arrives once, when the daemon's previous message   *)
(* of that exchange is out.  Every transition function answers STF_OK;     *)
(* the key agreement finishes inline or in a helper.                       *)
(***************************************************************************)
LossFreeConns ==
  { [ PlainConn EXCEPT !.auth = a ] : a \in SMF_PSK_AUTH \cup SMF_DS_AUTH }

Proof(auth) == IF auth \in SMF_DS_AUTH THEN "SIG" ELSE "HASH"

(* the peer's answer to the initiator's message sent on entering kind *)
AnswerTo(kind) ==
  CASE kind = "STATE_MAIN_I1" -> Pkt("IDPROT", LCookie, 1, 0, FALSE, << "SA" >>, 0)
    [] kind = "STATE_MAIN_I2" ->
         Pkt("IDPROT", LCookie, 1, 0, FALSE, << "KE", "NONCE" >>, 0)
    [] kind = "STATE_MAIN_I3" ->
         Pkt("IDPROT", LCookie, 1, 0, TRUE, << "ID", Proof(conn.auth) >>, 0)

(* the peer's next message after the responder's message sent on entering *)
(* kind                                                                    *)
NextAfter(kind) ==
  CASE kind = "STATE_MAIN_R1" ->
         Pkt("IDPROT", 1, 1, 0, FALSE, << "KE", "NONCE" >>, 0)
    [] kind = "STATE_MAIN_R2" ->
         Pkt("IDPROT", 1, 1, 0, TRUE, << "ID", Proof(conn.auth) >>, 0)

PeersIsakmpSa(S) == find_state_ikev1(S, 1, RCookie, v1_MAINMODE_MSGID)

LossFreeOracles == { h \in Oracles : h.result = STF_OK }

Initiate ==
  /\ OwnIsakmpSa(sas) = 0
  /\ \A n \in Serials : Exists(sas, n) => sas[n].icookie # LCookie
  /\ Up(LossFreeOracles)

PeerInitiates ==
  /\ \A n \in Serials : Exists(sas, n) => sas[n].icookie # 1
  /\ Receive(Pkt("IDPROT", 1, 0, 0, FALSE, << "SA" >>, 0), LossFreeOracles)

PeerAnswers ==
  LET n == OwnIsakmpSa(sas)
  IN /\ n # 0
     /\ sas[n].kind \in { "STATE_MAIN_I1", "STATE_MAIN_I2", "STATE_MAIN_I3" }
     /\ sas[n].suspended_md = NoMd
     /\ Receive(AnswerTo(sas[n].kind), LossFreeOracles)

PeerContinues ==
  LET n == PeersIsakmpSa(sas)
  IN /\ n # 0
     /\ sas[n].kind \in { "STATE_MAIN_R1", "STATE_MAIN_R2" }
     /\ sas[n].suspended_md = NoMd
     /\ Receive(NextAfter(sas[n].kind), LossFreeOracles)

InitLossFree == InitWith(LossFreeConns)

NextLossFree ==
  \/ Initiate
  \/ PeerInitiates
  \/ PeerAnswers
  \/ PeerContinues
  \/ \E n \in Serials : HelperDone(n, LossFreeOracles)

(* something waits for the event loop: the operator's request, a datagram *)
(* of the peer, or a helper's answer.  This is ENABLED <<NextLossFree>>_vars *)
(* written as a predicate on the state table.                              *)
Waiting ==
  /\ ~ crashed
  /\ \/ \A n \in Serials : Exists(sas, n) => sas[n].icookie # LCookie
     \/ \A n \in Serials : Exists(sas, n) => sas[n].icookie # 1
     \/ \E n \in Serials :
          /\ Exists(sas, n)
          /\ sas[n].kind \in { "STATE_MAIN_I1", "STATE_MAIN_I2", "STATE_MAIN_I3",
                               "STATE_MAIN_R1", "STATE_MAIN_R2" }
          /\ sas[n].suspended_md = NoMd
     \/ \E n \in Serials :
          Exists(sas, n) /\ (sas[n].offloaded_task \/ sas[n].dh_background)

(* the event loop serves whatever waits: the operator's request is served  *)
(* (WF on Initiate), and the loop does not stop while anything waits, which *)
(* is WF_vars(NextLossFree) with its ENABLED written as Waiting            *)
EventLoopRuns == []<>(~ Waiting) \/ []<><<NextLossFree>>_vars

SpecLossFree ==
  InitLossFree /\ [][NextLossFree]_vars /\ WF_vars(Initiate) /\ EventLoopRuns

(***************************************************************************)
(* Peer ID decoding: the connection table holds two connections, the SA is *)
(* bound to one of them, and ID payloads of every kind arrive, on          *)
(* initiators and responders, in Main Mode and in Aggressive Mode.         *)
(***************************************************************************)
ExpectedIds == PeerNames \cup { "ID_NONE", "ID_FROMCERT" }

Connections ==
  { [ that_id |-> id, kind |-> k, policy |-> p, has_id_wildcards |-> id = "ID_NONE" ] :
      id \in ExpectedIds, k \in { "CK_PERMANENT", "CK_TEMPLATE" },
      p \in { "POLICY_PSK", "POLICY_RSASIG" } }

PeerIdInputs ==
  [ peer : PeerNames, extract_ok : BOOLEAN, cert : { "NONE", "BAD", "east" },
    auth : { OAKLEY_PRESHARED_KEY, OAKLEY_DSS_SIG, OAKLEY_RSA_SIG },
    peer_alt_id : BOOLEAN, peer_is_dn : { TRUE } ]

InitPeerId ==
  /\ conn = PlainConn
  /\ sas = [ n \in Serials |-> NoState ]
  /\ nserial = 0
  /\ sent = << >>
  /\ crashed = FALSE
  /\ last = NoEvent
  /\ connections \in [ table : [ 1 .. 2 -> Connections ], cur : 1 .. 2 ]

DecodePeerId ==
  \E in \in PeerIdInputs, initiator \in BOOLEAN, aggrmode \in BOOLEAN :
    LET done == ikev1_decode_peer_id(connections, in, initiator, aggrmode, 0)
        found == refine_host_connection(connections, in, AuthPolicy(in.auth))
    IN /\ ~ done.full
       /\ connections' = done.C
       /\ last' = [ NoEvent EXCEPT
                      !.by = "peer_id",
                      !.decoded = [ ok |-> done.ok, depth |-> done.depth,
                                    from |-> connections.cur,
                                    refined |-> IF initiator \/ aggrmode
                                                THEN connections.cur
                                                ELSE found.r ] ]
       /\ UNCHANGED << conn, sas, nserial, sent, crashed >>

NextPeerId == DecodePeerId

SpecPeerId == InitPeerId /\ [][NextPeerId]_vars

(***************************************************************************)
(* Child SA lifetimes: Main Mode and Quick Mode responder on connections   *)
(* whose own IPsec lifetime and whose peer's proposal vary: any of AH, ESP *)
(* and IPCOMP, each with a lifetime below the rekey margin, between the    *)
(* margin and the connection's lifetime, or above both.                    *)
(***************************************************************************)
Lifetimes == { 100, 600, 28800 }

Transforms ==
  { [ present |-> FALSE, life |-> 0 ] }
  \cup { [ present |-> TRUE, life |-> l ] : l \in Lifetimes }

LifeConns ==
  { [ PlainConn EXCEPT !.sa_ipsec_life = own, !.peer_ah = ah,
                       !.peer_esp = esp.present, !.peer_ipsec_life = esp.life,
                       !.peer_ipcomp = ipcomp ] :
      own \in { 600, 28800 }, ah \in Transforms, esp \in Transforms,
      ipcomp \in Transforms }

LifePackets ==
  { Pkt("IDPROT", 1, 0, 0, FALSE, << "SA" >>, 0),
    Pkt("IDPROT", 1, 1, 0, FALSE, << "KE", "NONCE" >>, 0),
    Pkt("IDPROT", 1, 1, 0, TRUE, << "ID", "HASH" >>, 0),
    Pkt("QUICK", 1, 1, 1, TRUE, << "HASH", "SA", "NONCE" >>, 0),
    Pkt("QUICK", 1, 1, 1, TRUE, << "HASH" >>, 0) }

LifeOracles == { h \in Oracles : h.result = STF_OK /\ h.alt /\ h.gen = 1 }

InitLife == InitWith(LifeConns)

NextLife == \E pkt \in LifePackets : Receive(pkt, LifeOracles)

SpecLife == InitLife /\ [][NextLife]_vars

(***************************************************************************)
(* Lifetimes and rekeying in both roles: the daemon initiates Main Mode    *)
(* and Quick Mode and answers the peer's, on connections with and without  *)
(* DONT_REKEY whose own ISAKMP lifetime and whose peer's vary: the peer's   *)
(* below the rekey margin, below the connection's, equal to it, above it.  *)
(***************************************************************************)
IkeLives == { 200, 600, 3600, 28800 }

(* the peer proposes for a Child SA eight times what it proposes for the   *)
(* ISAKMP SA: below, at and above the connection's 28800 seconds           *)
RekeyConns ==
  { [ PlainConn EXCEPT !.peer_ike_life = peer, !.dont_rekey = d,
                       !.peer_ipsec_life = 8 * peer ] :
      peer \in IkeLives, d \in BOOLEAN }

RekeyPackets ==
  { Pkt("IDPROT", 1, 0, 0, FALSE, << "SA" >>, 0),
    Pkt("IDPROT", 1, 1, 0, FALSE, << "KE", "NONCE" >>, 0),
    Pkt("IDPROT", 1, 1, 0, TRUE, << "ID", "HASH" >>, 0),
    Pkt("QUICK", 1, 1, 1, TRUE, << "HASH", "SA", "NONCE" >>, 0),
    Pkt("QUICK", 1, 1, 1, TRUE, << "HASH" >>, 0),
    Pkt("IDPROT", LCookie, 1, 0, FALSE, << "SA" >>, 0),
    Pkt("IDPROT", LCookie, 1, 0, FALSE, << "KE", "NONCE" >>, 0),
    Pkt("IDPROT", LCookie, 1, 0, TRUE, << "ID", "HASH" >>, 0),
    Pkt("QUICK", LCookie, 1, 1, TRUE, << "HASH", "SA", "NONCE" >>, 0) }

RekeyOracles == { h \in Oracles : h.result = STF_OK /\ h.alt /\ h.gen = 1 }

InitRekey == InitWith(RekeyConns)

BringUp == OwnIsakmpSa(sas) = 0 /\ Up(RekeyOracles)

NextRekey ==
  \/ BringUp
  \/ \E pkt \in RekeyPackets : Receive(pkt, RekeyOracles)

SpecRekey == InitRekey /\ [][NextRekey]_vars

(***************************************************************************)
(* XAUTH client as initiator: the daemon brings up a connection that is an *)
(* XAUTH client, in Main Mode or Aggressive Mode, with or without Mode     *)
(* Config client; the peer answers and sends Mode Config messages (XAUTH   *)
(* requests and the XAUTH status) in any order and any number of times.    *)
(***************************************************************************)
XauthConns ==
  { [ PlainConn EXCEPT !.xauth_client = TRUE, !.aggressive = a,
                       !.modecfg_client = m ] : a \in BOOLEAN, m \in BOOLEAN }

XauthPackets ==
  { Pkt("IDPROT", LCookie, 1, 0, FALSE, << "SA" >>, 0),
    Pkt("IDPROT", LCookie, 1, 0, FALSE, << "KE", "NONCE" >>, 0),
    Pkt("IDPROT", LCookie, 1, 0, TRUE, << "ID", "HASH" >>, 0),
    Pkt("AGGR", LCookie, 1, 0, FALSE, << "SA", "KE", "NONCE", "ID", "HASH" >>, 0) }
  \cup { Pkt("MODE_CFG", LCookie, 1, m, TRUE, << "HASH", "MCFG_ATTR" >>, 0) :
           m \in 1 .. MaxMsgid }

XauthOracles ==
  { h \in Oracles : h.result \in { STF_OK, STF_IGNORE, STF_FAIL } /\ h.gen = 1 }

InitXauth == InitWith(XauthConns)

XauthUp == OwnIsakmpSa(sas) = 0 /\ Up(XauthOracles)

NextXauth ==
  \/ XauthUp
  \/ \E pkt \in XauthPackets : Receive(pkt, XauthOracles)
  \/ \E n \in Serials : HelperDone(n, XauthOracles)

SpecXauth == InitXauth /\ [][NextXauth]_vars

(***************************************************************************)
(* Delete payloads: after the Main Mode handshake the peer sends Quick     *)
(* Mode and Informational messages, some of them with a Delete payload     *)
(* that names the ISAKMP SA the message arrives on; a transition function  *)
(* may fail before or after it has built its state object.                 *)
(***************************************************************************)
DeletePackets ==
  { Pkt("IDPROT", 1, 0, 0, FALSE, << "SA" >>, 0),
    Pkt("IDPROT", 1, 1, 0, FALSE, << "KE", "NONCE" >>, 0),
    Pkt("IDPROT", 1, 1, 0, TRUE, << "ID", "HASH" >>, 0),
    Pkt("QUICK", 1, 1, 1, TRUE, << "HASH", "SA", "NONCE" >>, 0),
    Pkt("QUICK", 1, 1, 1, TRUE, << "HASH" >>, 0),
    Notify(Pkt("QUICK", 1, 1, 2, TRUE, << "HASH", "SA", "NONCE", "D" >>, 0),
           "NONE", "SELF"),
    Notify(Pkt("INFO", 1, 1, 1, TRUE, << "HASH", "D" >>, 0), "NONE", "SELF"),
    Notify(Pkt("INFO", 1, 1, 1, TRUE, << "HASH", "N", "D" >>, 0),
           "R_U_THERE", "SELF") }

DeleteOracles ==
  { h \in Oracles :
      h.result \in { STF_OK, STF_IGNORE, STF_FAIL, STF_FATAL } /\ h.gen = 1 }

InitDelete == InitWith({ PlainConn })

NextDelete ==
  \/ \E pkt \in DeletePackets : Receive(pkt, DeleteOracles)
  \/ \E n \in Serials : HelperDone(n, DeleteOracles)

SpecDelete == InitDelete /\ [][NextDelete]_vars

(***************************************************************************)
(* Fragmented messages that end the SA: after the Main Mode handshake, or  *)
(* in place of its third message, the peer sends in fragments the third    *)
(* Main Mode message, a message with a Delete payload that names the       *)
(* ISAKMP SA, and an Informational message with a PAYLOAD_MALFORMED        *)
(* notification; a transition function may fail.                           *)
(***************************************************************************)
GoneMessages ==
  { Pkt("IDPROT", 1, 1, 0, TRUE, << "ID", "HASH" >>, 0),
    Notify(Pkt("IDPROT", 1, 1, 0, TRUE, << "D" >>, 0), "NONE", "SELF"),
    Notify(Pkt("INFO", 1, 1, 1, TRUE, << "HASH", "N" >>, 0),
           "PAYLOAD_MALFORMED", "NONE") }

GonePackets ==
  { Pkt("IDPROT", 1, 0, 0, FALSE, << "SA" >>, 0),
    Pkt("IDPROT", 1, 1, 0, FALSE, << "KE", "NONCE" >>, 0) }
  \cup UNION { { Fragment(msg, i, N) : msg \in GoneMessages, i \in 1 .. N } :
                N \in 1 .. 2 }

GoneOracles ==
  { h \in Oracles :
      h.result \in { STF_OK, STF_IGNORE, STF_FAIL, STF_FATAL } /\ h.gen = 1 }

InitGone == InitWith({ PlainConn })

NextGone ==
  \/ \E pkt \in GonePackets : Receive(pkt, GoneOracles)
  \/ \E n \in Serials : HelperDone(n, GoneOracles)

SpecGone == InitGone /\ [][NextGone]_vars

(***************************************************************************)
(* Repeated payloads: Main Mode and Quick Mode responder; the first Main   *)
(* Mode message is any chain of SA and VID payloads, a Quick Mode message  *)
(* a HASH payload followed by any chain of SA and NONCE payloads, so that  *)
(* every required payload comes missing, once and repeated, and the        *)
(* optional ID payloads come in a pair.                                    *)
(***************************************************************************)
RepeatPackets ==
  { Pkt("IDPROT", 1, 0, 0, FALSE, c, 0) : c \in ChainsUpTo({ "SA", "VID" }, MaxChain) }
  \cup { Pkt("IDPROT", 1, 1, 0, FALSE, << "KE", "NONCE" >>, 0),
         Pkt("IDPROT", 1, 1, 0, FALSE, << "KE", "NONCE", "KE" >>, 0),
         Pkt("IDPROT", 1, 1, 0, TRUE, << "ID", "HASH" >>, 0),
         Pkt("IDPROT", 1, 1, 0, TRUE, << "ID", "HASH", "HASH" >>, 0),
         Pkt("QUICK", 1, 1, 1, TRUE, << "HASH", "SA", "NONCE", "ID", "ID" >>, 0) }
  \cup { Pkt("QUICK", 1, 1, 1, TRUE, << "HASH" >> \o c, 0) :
           c \in ChainsUpTo({ "SA", "NONCE" }, MaxChain) }
  \cup { Pkt("QUICK", 1, 1, 1, TRUE, << "HASH", "HASH", "SA", "NONCE" >>, 0) }

RepeatOracles ==
  { h \in Oracles : h.result \in { STF_OK, STF_IGNORE } /\ h.alt /\ h.gen = 1 }

InitRepeat == InitWith({ PlainConn })

NextRepeat == \E pkt \in RepeatPackets : Receive(pkt, RepeatOracles)

SpecRepeat == InitRepeat /\ [][NextRepeat]_vars

(***************************************************************************)
(* Plaintext Informational messages: during and after the Main Mode        *)
(* handshake the peer sends Informational messages in the clear that carry *)
(* a PAYLOAD_MALFORMED or CISCO_LOAD_BALANCE notification or a Delete of   *)
(* the ISAKMP SA, with the responder cookie and without it, and the same   *)
(* notification and Delete encrypted.                                      *)
(***************************************************************************)
PlainChains ==
  { << << "N" >>, "PAYLOAD_MALFORMED", "NONE" >>,
    << << "N" >>, "CISCO_LOAD_BALANCE", "PEER" >>,
    << << "D" >>, "NONE", "SELF" >>,
    << << "N", "D" >>, "PAYLOAD_MALFORMED", "SELF" >> }

PlainPackets ==
  { Pkt("IDPROT", 1, 0, 0, FALSE, << "SA" >>, 0),
    Pkt("IDPROT", 1, 1, 0, FALSE, << "KE", "NONCE" >>, 0),
    Pkt("IDPROT", 1, 1, 0, TRUE, << "ID", "HASH" >>, 0),
    Notify(Pkt("INFO", 1, 1, 1, TRUE, << "HASH", "N" >>, 0), "PAYLOAD_MALFORMED", "NONE"),
    Notify(Pkt("INFO", 1, 1, 2, TRUE, << "HASH", "D" >>, 0), "NONE", "SELF") }
  \cup { Notify(Pkt("INFO", 1, r, 0, FALSE, c[1], 0), c[2], c[3]) :
           r \in 0 .. 1, c \in PlainChains }

PlainOracles ==
  { h \in Oracles : h.result \in { STF_OK, STF_IGNORE } /\ h.gen = 1 }

InitPlain == InitWith({ PlainConn })

NextPlain ==
  \/ \E pkt \in PlainPackets : Receive(pkt, PlainOracles)
  \/ \E n \in Serials : HelperDone(n, PlainOracles)

SpecPlain == InitPlain /\ [][NextPlain]_vars

(***************************************************************************)
(* Negotiations waiting for the ISAKMP SA: the daemon brings up, in Main   *)
(* Mode or Aggressive Mode, a connection that is XAUTH server or client or *)
(* neither and Mode Config server or client or neither, push or pull, and  *)
(* asks for more Quick Mode negotiations while the SA is not established;  *)
(* the peer answers and sends Mode Config messages in any order.           *)
(***************************************************************************)
ReadyConns ==
  { [ PlainConn EXCEPT !.xauth_server = x = "server", !.xauth_client = x = "client",
                       !.modecfg_server = m = "server",
                       !.modecfg_client = m = "client",
                       !.modecfg_pull = p, !.aggressive = a ] :
      x \in { "none", "server", "client" }, m \in { "none", "server", "client" },
      p \in BOOLEAN, a \in BOOLEAN }

ReadyPackets ==
  { Pkt("IDPROT", LCookie, 1, 0, FALSE, << "SA" >>, 0),
    Pkt("IDPROT", LCookie, 1, 0, FALSE, << "KE", "NONCE" >>, 0),
    Pkt("IDPROT", LCookie, 1, 0, TRUE, << "ID", "HASH" >>, 0),
    Pkt("AGGR", LCookie, 1, 0, FALSE, << "SA", "KE", "NONCE", "ID", "HASH" >>, 0) }
  \cup { Pkt("MODE_CFG", LCookie, 1, m, TRUE, << "HASH", "MCFG_ATTR" >>, 0) :
           m \in 1 .. MaxMsgid }

ReadyOracles ==
  { h \in Oracles : h.result \in { STF_OK, STF_IGNORE } /\ h.gen = 1 }

InitReady == InitWith(ReadyConns)

Unestablished ==
  IF OwnIsakmpSa(sas) = 0 THEN TRUE
  ELSE ~ IS_ISAKMP_SA_ESTABLISHED(sas[OwnIsakmpSa(sas)].kind)

ReadyUp == Unestablished /\ Up(ReadyOracles)

NextReady ==
  \/ ReadyUp
  \/ \E pkt \in ReadyPackets : Receive(pkt, ReadyOracles)
  \/ \E n \in Serials : HelperDone(n, ReadyOracles)

SpecReady == InitReady /\ [][NextReady]_vars

(***************************************************************************)
(* Peer ID decoding on the initiator: the SA is bound to the one           *)
(* connection the operator brought up, which expects a named peer, any     *)
(* peer, or the ID of the peer's certificate; the peer's ID payload names  *)
(* one of the peers and is or is not a distinguished name, its certificate *)
(* is absent, bad or east's, and the certificate may or may not carry the  *)
(* expected ID as an alternative name.                                     *)
(***************************************************************************)
InitiatorInputs ==
  [ peer : PeerNames, extract_ok : BOOLEAN, cert : { "NONE", "BAD", "east" },
    auth : { OAKLEY_PRESHARED_KEY, OAKLEY_RSA_SIG },
    peer_alt_id : BOOLEAN, peer_is_dn : BOOLEAN ]

InitInitiatorId ==
  /\ conn = PlainConn
  /\ sas = [ n \in Serials |-> NoState ]
  /\ nserial = 0
  /\ sent = << >>
  /\ crashed = FALSE
  /\ last = NoEvent
  /\ connections \in [ table : [ 1 .. 1 -> Connections ], cur : { 1 } ]

(* main_inR3 and aggr_inR1_outI2 decode the peer's ID as initiator *)
DecodeAsInitiator ==
  \E in \in InitiatorInputs, aggrmode \in BOOLEAN :
    LET done == ikev1_decode_peer_id(connections, in, TRUE, aggrmode, 0)
    IN /\ ~ done.full
       /\ connections' = done.C
       /\ last' = [ NoEvent EXCEPT
                      !.by = "initiator_peer_id",
                      !.decoded = [ ok |-> done.ok, depth |-> done.depth,
                                    from |-> connections.cur,
                                    refined |-> connections.cur,
                                    in |-> in, aggrmode |-> aggrmode ] ]
       /\ UNCHANGED << conn, sas, nserial, sent, crashed >>

NextInitiatorId == DecodeAsInitiator

SpecInitiatorId == InitInitiatorId /\ [][NextInitiatorId]_vars

(***************************************************************************)
(* Claims about the payload decoder.                                       *)
(***************************************************************************)
Notes(out) == { out[i].note : i \in { j \in DOMAIN out : out[j].what = "notification" } }

(* the step's datagram was plaintext, had no SA, and carries a payload     *)
(* outside the required, optional and always-accepted types of the entry   *)
OutsideAllowed(pkt, smc) ==
  \E i \in DOMAIN pkt.chain :
    pkt.chain[i] \notin (smc.req_payloads \cup smc.opt_payloads \cup AlwaysAccepted)

NoSAPlaintextOffender ==
  /\ last.pkt # NoPacket
  /\ ~ last.pkt.enc
  /\ last.pkt.bad = 0
  /\ \/ last.from_state \in { "STATE_MAIN_R0", "STATE_AGGR_R0" }
     \/ last.from_state = "STATE_INFO" /\ last.st = 0
  /\ last.smc # 0
  /\ OutsideAllowed(last.pkt, v1_state_microcode_table[last.smc])

(* C1, as the specification states it: a plaintext packet without an SA    *)
(* that carries an unknown payload, or a known one outside the entry's     *)
(* required, optional and always-accepted types, is rejected to the end:   *)
(* INVALID_PAYLOAD_TYPE goes out, no handler runs, no SA is created, and   *)
(* the absent SA is never dereferenced (the daemon keeps running).         *)
C1_RejectionCompletes ==
  [][ NoSAPlaintextOffender' =>
        /\ Notes(sent') = { "INVALID_PAYLOAD_TYPE" }
        /\ last'.handler = NULL
        /\ sas' = sas /\ nserial' = nserial
        /\ ~ last'.ub
        /\ ~ crashed' ]_vars

(* C10, as the specification states it: when payload decoding or payload   *)
(* ordering fails for an encrypted packet, nothing is sent.                *)
C10_EncryptedFailureIsSilent ==
  ( /\ last.pkt.enc
    /\ last.outcome = "reject"
    /\ last.why \in { "decode", "order" } ) => sent = << >>



(***************************************************************************)
(* Claims about complete_v1_state_transition.                              *)
(***************************************************************************)
(* the last step completed a transition whose function returned STF_OK *)
OKResult == last.result = STF_OK /\ last.st # 0 /\ sas[last.st] # NoState

OKCompleted == OKResult /\ ~ crashed

LastEntry == v1_state_microcode_table[last.smc]

TimersArmed(st) ==
  (IF st.event # EVENT_NULL THEN 1 ELSE 0)
  + (IF st.send_xauth_event THEN 1 ELSE 0)

RPacketOf(S, n) == IF S[n] = NoState THEN NoPacket ELSE S[n].rpacket

(* the step replaced the stored received packet of a state that lives on *)
Recorded(n) == sas'[n] # NoState /\ RPacketOf(sas', n) # RPacketOf(sas, n)

(* the step processed a packet for a state that lives on, with a result    *)
(* among results, and the state's stored received packet is now that       *)
(* packet                                                                  *)
RecordsAfter(results) ==
  ( /\ last'.result \in results
    /\ last'.st # 0
    /\ sas'[last'.st] # NoState ) => sas'[last'.st].rpacket = last'.pkt

ReplayOfTrigger(n) ==
  /\ last'.by = "packet"
  /\ last'.st = n
  /\ ~ (last'.outcome = "reject" /\ last'.why = "demux")
  /\ last'.pkt # NoPacket
  /\ sas[n] # NoState
  /\ sas[n].g_trigger = last'.pkt
  /\ sas[n].rpacket = last'.pkt
  /\ sas[n].last_transition # 0
  /\ SMF_REPLY \in v1_state_microcode_table[sas[n].last_transition].flags
  /\ ~ state_is_busy(sas[n])

OnlyRetransmits(n) ==
  /\ sas[n].tpacket # NoPacket
  /\ sent' = << Transmission("retransmit", sas[n].tpacket, n) >>

C6_DuplicateRule ==
  [][ \A n \in Serials :
        ( /\ last'.by = "packet"
          /\ last'.outcome = "duplicate"
          /\ last'.st = n ) =>
          /\ sas[n] # NoState
          /\ sas[n].rpacket = last'.pkt
          /\ last'.retransmitted <=>
                /\ sas[n].last_transition # 0
                /\ SMF_REPLY \in v1_state_microcode_table[sas[n].last_transition].flags
                /\ \E i \in TableIndexes :
                     /\ v1_state_microcode_table[i].state = sas'[n].kind
                     /\ SMF_RETRANSMIT_ON_DUPLICATE \in
                          v1_state_microcode_table[i].flags
                /\ \/ v1_state_microcode_table[sas[n].last_transition].timeout_event
                         = EVENT_SO_DISCARD
                   \/ sas[n].nr_duplicates < MAXIMUM_v1_ACCEPTED_DUPLICATES
          /\ IF last'.retransmitted
             THEN sent' = << Transmission("retransmit", sas[n].tpacket, n) >>
             ELSE sent' = << >> ]_vars

C6_DroppedAtCap ==
  /\ last.outcome = "duplicate"
  /\ ~ last.retransmitted
  /\ sent = << >>
  /\ sas[last.st].nr_duplicates > MAXIMUM_v1_ACCEPTED_DUPLICATES

(* the state, the armed timers and the stored received packet of SA n are  *)
(* the same before and after the step                                      *)
Untouched(n) ==
  /\ sas'[n] # NoState
  /\ sas'[n].kind = sas[n].kind
  /\ sas'[n].event = sas[n].event
  /\ sas'[n].event_delay = sas[n].event_delay
  /\ sas'[n].send_xauth_event = sas[n].send_xauth_event
  /\ sas'[n].rpacket = sas[n].rpacket

(* C7: processing a packet that is a bytewise duplicate of the SA's stored *)
(* received packet never invokes a transition handler and leaves the SA's  *)
(* state, armed timer and stored received packet exactly as they were      *)
(* before the duplicate arrived, whatever the exchange type.               *)
C7_DuplicateChangesNothing ==
  [][ \A n \in Serials :
        ( /\ last'.by = "packet"
          /\ last'.outcome = "duplicate"
          /\ last'.st = n ) =>
          /\ last'.handler = NULL
          /\ Untouched(n) ]_vars

(***************************************************************************)
(* Claims about packets that are rejected before a handler runs.           *)
(***************************************************************************)
RejectedBeforeHandler ==
  /\ last'.by = "packet"
  /\ last'.outcome = "reject"
  /\ last'.handler = NULL

KindChanged(n) ==
  /\ sas[n] # NoState
  /\ sas'[n] # NoState
  /\ sas'[n].kind # sas[n].kind

HandlerResultApplied(n) ==
  /\ last'.handler # NULL
  /\ last'.result = STF_OK

(* the two state changes the demultiplexer itself makes before it hands    *)
(* the packet on: a Quick Mode message for an ISAKMP SA in MODE_CFG_R2     *)
(* puts it in MAIN_R3, and a Mode Config message for a Phase 1 state of an *)
(* XAUTH server puts it in XAUTH_R0                                        *)
DemuxPromotion(n) ==
  /\ last'.promoted
  /\ \/ /\ last'.pkt.xchg = "QUICK"
        /\ sas[n].kind = "STATE_MODE_CFG_R2"
        /\ sas'[n].kind = "STATE_MAIN_R3"
     \/ /\ last'.pkt.xchg = "MODE_CFG"
        /\ conn.xauth_server
        /\ IS_PHASE1(sas[n].kind)
        /\ sas'[n].kind = "STATE_XAUTH_R0"

OfSet(f, bytes, N) ==
  /\ f.index \in 1 .. N
  /\ f.last = (f.index = N)
  /\ f.data = Piece(bytes, f.index, N)

Indices(frags) == { frags[k].index : k \in DOMAIN frags }

RECURSIVE Concatenation(_, _, _)
Concatenation(bytes, i, N) ==
  IF i > N THEN << >> ELSE Piece(bytes, i, N) \o Concatenation(bytes, i + 1, N)

(* the step took a fragment for SA n, and that fragment and all the        *)
(* fragments SA n held before are fragments of bytes cut into N            *)
FragmentOfSetArrives(n, bytes, N) ==
  /\ last'.fragment # NoPacket
  /\ last'.frag_st = n
  /\ sas[n] # NoState
  /\ OfSet(Frag(last'.fragment), bytes, N)
  /\ \A k \in DOMAIN sas[n].rfrags : OfSet(sas[n].rfrags[k], bytes, N)

(* C8: for fragments with indices 1..N of one message, of which exactly    *)
(* fragment N carries the last flag, arriving in any order on an SA whose  *)
(* policy allows fragmentation, a reassembled message is produced exactly  *)
(* by the arrival after which every index in 1..N is present, its bytes    *)
(* are the concatenation of the fragment payloads in index order, and      *)
(* while an index is missing the fragments are kept and nothing is         *)
(* reassembled.                                                            *)
C8_ReassemblyWhenComplete ==
  [][ \A n \in Serials, msg \in FragMessages, N \in 1 .. MaxFrag :
        FragmentOfSetArrives(n, Serialize(msg), N) =>
          /\ conn.ike_frag_allow
          /\ last'.whole <=>
                Indices(sas[n].rfrags) \cup { last'.fragment.frag.number } = 1 .. N
          /\ last'.whole =>
                /\ last'.reassembled = Concatenation(Serialize(msg), 1, N)
                /\ last'.reassembled = Serialize(msg)
          /\ ~ last'.whole =>
                /\ sas'[n] # NoState
                /\ Indices(sas'[n].rfrags) =
                     Indices(sas[n].rfrags) \cup { last'.fragment.frag.number }
                /\ last'.handler = NULL ]_vars

(* the third Main Mode message, cut into MaxFrag fragments, is completed   *)
(* by the late arrival of its first fragment and handled                   *)
C8_CompletedOutOfOrder ==
  /\ last.whole
  /\ last.fragment.frag.number = 1
  /\ ~ last.fragment.frag.last
  /\ last.reassembled = Serialize(Pkt("IDPROT", 1, 1, 0, TRUE, << "ID", "HASH" >>, 0))
  /\ Len(last.fragment.frag.data) < Len(last.reassembled) \div 2
  /\ last.handler # NULL
  /\ last.result = STF_OK

(***************************************************************************)
(* Claims about the microcode table.                                       *)
(***************************************************************************)
(* C11: every entry of the microcode table that has INPUT_ENCRYPTED, lacks *)
(* FIRST_ENCRYPTED_INPUT and whose handler is not the unexpected handler   *)
(* requires the HASH payload and has a hash type other than NONE, so the   *)
(* check in init_ikev1 logs nothing; in particular every such entry the    *)
(* dispatcher selects for a packet is so protected.                        *)
C11_EncryptedInputRequiresHash ==
  /\ init_ikev1_missing_hash = { }
  /\ \A i \in TableIndexes :
       NeedsHash(v1_state_microcode_table[i]) =>
         /\ "HASH" \in v1_state_microcode_table[i].req_payloads
         /\ v1_state_microcode_table[i].hash_type # V1_HASH_NONE
  /\ ( last.smc # 0 /\ NeedsHash(v1_state_microcode_table[last.smc]) ) =>
       /\ "HASH" \in v1_state_microcode_table[last.smc].req_payloads
       /\ v1_state_microcode_table[last.smc].hash_type # V1_HASH_NONE

(* a Quick Mode handler ran on an entry that must be HASH protected *)
C11_ProtectedEntryHandled ==
  /\ last.smc # 0
  /\ NeedsHash(v1_state_microcode_table[last.smc])
  /\ last.handler # NULL
  /\ last.result = STF_OK
  /\ \E k \in DOMAIN last.pkt.chain : last.pkt.chain[k] = "HASH"

(* the step processed a packet for an SA that existed when the packet     *)
(* arrived and whose base authentication method is one of the four classes *)
PacketForExistingSA ==
  /\ last'.by = "packet"
  /\ last'.st # 0
  /\ sas[last'.st] # NoState
  /\ xauth_calcbaseauth(sas[last'.st].auth) \in BaseAuths

(* C12: for an existing SA with any of the four base authentication        *)
(* methods the dispatcher's scan of the microcode table, starting at the   *)
(* first entry of the from_state, finds an entry whose authentication mask *)
(* has the method without leaving the entries of that from_state: the scan *)
(* never runs into its assertion, and the entry it selects belongs to the  *)
(* from_state and matches the method.                                      *)
C12_ScanStaysInState ==
  [][ PacketForExistingSA =>
        /\ ~ (crashed' /\ last'.why = "passert")
        /\ last'.smc # 0 =>
             /\ v1_state_microcode_table[last'.smc].state = last'.from_state
             /\ xauth_calcbaseauth(sas[last'.st].auth) \in
                  v1_state_microcode_table[last'.smc].auth ]_vars
(***************************************************************************)
(* Claims about the Informational Exchange.                                *)
(***************************************************************************)
InfoStateOf(pkt) ==
  IF find_v1_info_state(sas, pkt.icookie, pkt.rcookie, v1_MAINMODE_MSGID) # 0
  THEN find_v1_info_state(sas, pkt.icookie, pkt.rcookie, v1_MAINMODE_MSGID)
  ELSE find_state_ikev1_init(sas, pkt.icookie, v1_MAINMODE_MSGID)

ProtectedInfoHandled ==
  /\ last'.by = "packet"
  /\ last'.pkt.xchg = "INFO"
  /\ last'.pkt.enc
  /\ last'.handler = "informational"

(* C13: an encrypted Informational message reaches the informational       *)
(* handler only if its message id is not zero and has not been seen on     *)
(* that ISAKMP SA: not reserved by an earlier exchange, and not the        *)
(* message id of an earlier encrypted Informational message that was       *)
(* accepted on the SA.                                                     *)
C13_InformationalMsgidOnce ==
  [][ ProtectedInfoHandled =>
        /\ last'.pkt.msgid # v1_MAINMODE_MSGID
        /\ InfoStateOf(last'.pkt) # 0
        /\ unique_msgid(sas[InfoStateOf(last'.pkt)], last'.pkt.msgid)
        /\ last'.pkt.msgid \notin sas[InfoStateOf(last'.pkt)].g_info ]_vars

(* the part of C13 the demultiplexer does enforce *)
C13_InformationalMsgidUnreserved ==
  [][ ProtectedInfoHandled =>
        /\ last'.pkt.msgid # v1_MAINMODE_MSGID
        /\ InfoStateOf(last'.pkt) # 0
        /\ unique_msgid(sas[InfoStateOf(last'.pkt)], last'.pkt.msgid) ]_vars

(***************************************************************************)
(* Claims about the start of a Quick Mode exchange.                        *)
(***************************************************************************)
QuickParent(pkt) ==
  find_state_ikev1(sas, pkt.icookie, pkt.rcookie, v1_MAINMODE_MSGID)

QuickWithoutSA ==
  /\ last'.by = "packet"
  /\ last'.pkt.xchg = "QUICK"
  /\ last'.pkt.msgid # v1_MAINMODE_MSGID
  /\ find_state_ikev1(sas, last'.pkt.icookie, last'.pkt.rcookie, last'.pkt.msgid) = 0

(* C14: a Quick Mode message for which no Quick Mode SA exists under its   *)
(* SPIs and message id reaches a handler only with from_state              *)
(* STATE_QUICK_R0, and only if the parent ISAKMP SA exists, is not doing   *)
(* XAUTH, is established, and no earlier Quick Mode exchange of that       *)
(* parent with the same message id had a transition complete with STF_OK,  *)
(* whether or not that exchange's SA still exists.                         *)
C14_QuickStartsOnFreshMsgid ==
  [][ ( QuickWithoutSA /\ last'.handler # NULL ) =>
        /\ last'.from_state = "STATE_QUICK_R0"
        /\ QuickParent(last'.pkt) # 0
        /\ ~ sas[QuickParent(last'.pkt)].doing_xauth
        /\ IS_ISAKMP_SA_ESTABLISHED(sas[QuickParent(last'.pkt)].kind)
        /\ last'.pkt.msgid \notin sas[QuickParent(last'.pkt)].g_quick ]_vars

(* a Quick Mode exchange completed a transition, its SA was deleted, and   *)
(* a first message with its message id is turned away                      *)
C14_UsedMsgidTurnedAway ==
  /\ last.by = "packet"
  /\ last.pkt.xchg = "QUICK"
  /\ last.handler = NULL
  /\ last.outcome = "reject"
  /\ QuickParent(last.pkt) # 0
  /\ last.pkt.msgid \in sas[QuickParent(last.pkt)].g_quick
  /\ find_state_ikev1(sas, last.pkt.icookie, last.pkt.rcookie, last.pkt.msgid) = 0

(***************************************************************************)
(* Claims about initial Phase 1 messages that arrive again.                *)
(***************************************************************************)
SameInitiator(n) ==
  /\ sas[n] # NoState
  /\ ~ IS_CHILD_SA(sas[n])
  /\ sas[n].icookie = last'.pkt.icookie

InitialForExistingSA ==
  /\ last'.by = "packet"
  /\ last'.pkt.xchg \in { "IDPROT", "AGGR" }
  /\ last'.pkt.rcookie = 0
  /\ \E n \in Serials : SameInitiator(n)

DuplicateRuleAllows(st) ==
  /\ st.last_transition # 0
  /\ SMF_REPLY \in v1_state_microcode_table[st.last_transition].flags
  /\ SMF_RETRANSMIT_ON_DUPLICATE \in finite_state_flags(st.kind)
  /\ \/ v1_state_microcode_table[st.last_transition].timeout_event = EVENT_SO_DISCARD
     \/ st.nr_duplicates < MAXIMUM_v1_ACCEPTED_DUPLICATES

StoredReplyResent ==
  \E n \in Serials :
    /\ SameInitiator(n)
    /\ last'.pkt = sas[n].rpacket
    /\ DuplicateRuleAllows(sas[n])
    /\ sent' = << Transmission("retransmit", sas[n].tpacket, n) >>

Discarded ==
  /\ \A k \in DOMAIN sent' : sent'[k].what # "retransmit"
  /\ \A n \in Serials :
       sas'[n] = IF sas[n] = NoState THEN NoState
                 ELSE [ sas[n] EXCEPT !.nr_duplicates = sas'[n].nr_duplicates ]

(* C15: a Main or Aggressive Mode message with a zero responder SPI whose  *)
(* initiator SPI is that of an existing ISAKMP SA creates no state object  *)
(* and reaches no handler; either the stored reply of that SA is sent      *)
(* again, the message being bytewise equal to the SA's rpacket and the     *)
(* duplicate rule allowing it, or the message is discarded.                *)
C15_InitialForExistingSAIsDuplicate ==
  [][ InitialForExistingSA =>
        /\ nserial' = nserial
        /\ last'.handler = NULL
        /\ IF last'.retransmitted THEN StoredReplyResent ELSE Discarded ]_vars

(* the first message arrived again and was answered from the store *)
C15_InitialAnsweredAgain ==
  /\ last.by = "packet"
  /\ last.pkt.xchg = "IDPROT"
  /\ last.pkt.rcookie = 0
  /\ last.outcome = "duplicate"
  /\ last.why = "initial"
  /\ last.retransmitted
  /\ nserial = 1

(***************************************************************************)
(* Claims about the payloads of a message that reaches its handler.        *)
(***************************************************************************)
Handled == last.handler # NULL /\ last.smc # 0

AllowedTypes(smc) == smc.req_payloads \cup smc.opt_payloads \cup AlwaysAccepted

(* the type a payload is digested under: the draft NAT numbers are         *)
(* rewritten to the RFC types                                              *)
DigestedAs(np) ==
  CASE np = "NATD_DRAFTS" -> "NATD_RFC"
    [] np = "NATOA_DRAFTS" -> "NATOA_RFC"
    [] OTHER -> np

(* C16: a message reaches its handler only if every required payload type *)
(* of the selected transition occurs in it and every payload of it has a   *)
(* type among the required, the optional and VID, N, D, CR, CERT.          *)
C16_OnlyExpectedPayloads ==
  Handled =>
    /\ \A np \in v1_state_microcode_table[last.smc].req_payloads :
         HasPayload(last.pkt, np)
    /\ \A k \in DOMAIN last.pkt.chain :
         last.pkt.chain[k] \in AllowedTypes(v1_state_microcode_table[last.smc])

(* C16, amended: as C16, for the payloads that are digested: a payload of  *)
(* type SAK is skipped wherever it stands, and a payload with a draft      *)
(* NAT-D or NAT-OA number counts under its RFC type.                       *)
C16_OnlyExpectedPayloadsDigested ==
  Handled =>
    /\ \A np \in v1_state_microcode_table[last.smc].req_payloads :
         HasPayload(last.pkt, np)
    /\ \A k \in DOMAIN last.pkt.chain :
         \/ last.pkt.chain[k] = "SAK"
         \/ DigestedAs(last.pkt.chain[k])
              \in AllowedTypes(v1_state_microcode_table[last.smc])

(* a message with a skipped SAK payload was handled *)
C16_HandledWithSkippedPayload ==
  /\ Handled
  /\ last.result = STF_OK
  /\ HasPayload(last.pkt, "SAK")
  /\ v1_state_microcode_table[last.smc].req_payloads = { "KE", "NONCE" }

(***************************************************************************)
(* Claims about the payload order of Quick Mode messages.                  *)
(***************************************************************************)
QuickHandled == last.handler # NULL /\ IS_QUICK(last.from_state)

(* SA payloads stand directly after the first payload, one after another;  *)
(* ID payloads are absent or two neighbours                                *)
QuickOrder(chain) ==
  /\ Positions(chain, "SA") = 2 .. Cardinality(Positions(chain, "SA")) + 1
  /\ \/ Positions(chain, "ID") = { }
     \/ \E i \in DOMAIN chain : Positions(chain, "ID") = { i, i + 1 }

IsDigested(np) == np # "SAK"

(* C17: a Quick Mode message reaches its handler only if the header's      *)
(* next payload is HASH, its SA payloads stand in consecutive positions    *)
(* directly after the first payload, and its ID payloads are absent or     *)
(* exactly two and adjacent.                                               *)
C17_QuickPayloadOrder ==
  QuickHandled =>
    /\ last.pkt.chain # << >>
    /\ last.pkt.chain[1] = "HASH"
    /\ QuickOrder(last.pkt.chain)

(* C17, amended: as C17, with the positions counted among the payloads     *)
(* that are digested; a payload of type SAK is skipped and may stand       *)
(* anywhere after the first payload.                                       *)
C17_QuickPayloadOrderDigested ==
  QuickHandled =>
    /\ last.pkt.chain # << >>
    /\ last.pkt.chain[1] = "HASH"
    /\ QuickOrder(SelectSeq(last.pkt.chain, IsDigested))

(* a Quick Mode message with two adjacent ID payloads after SA was handled *)
C17_HandledWithTwoIDs ==
  /\ QuickHandled
  /\ last.result = STF_OK
  /\ Cardinality(Positions(last.pkt.chain, "ID")) = 2
  /\ Positions(last.pkt.chain, "SA") = { 2 }

(***************************************************************************)
(* Claims about the result codes other than STF_OK.                        *)
(***************************************************************************)
ResultApplied == last.result # NULL /\ last.st # 0

FailResults == { STF_FAIL, STF_FAIL_NOTE }

(* C18: when the dispatcher applies a result to a message's SA, the SA is  *)
(* deleted exactly if the result is STF_FATAL, or is STF_FAIL (with or     *)
(* without a notification) while the SA is in a Quick Mode state; after    *)
(* every other result, and after STF_FAIL in another state, the SA exists. *)
C18_DeletedOnFatalOrQuickFail ==
  ResultApplied =>
    ( sas[last.st] = NoState <=>
        \/ last.result = STF_FATAL
        \/ last.result \in FailResults /\ IS_QUICK(last.kind) )

(* a Quick Mode SA was deleted because its transition failed *)
C18_QuickFailDeleted ==
  /\ ResultApplied
  /\ last.result \in FailResults
  /\ IS_QUICK(last.kind)
  /\ sas[last.st] = NoState
  /\ \E n \in Serials : sas[n] # NoState /\ ~ IS_CHILD_SA(sas[n])

FailedOutsideQuick(n) ==
  /\ last'.result \in FailResults
  /\ last'.st = n
  /\ ~ IS_QUICK(last'.kind)
  /\ sas[n] # NoState

IgnoredFor(n) ==
  /\ last'.handler # NULL
  /\ last'.result = STF_IGNORE
  /\ last'.routed = n
  /\ sas[n] # NoState

SameTimerAndPacket(n) ==
  /\ sas'[n].event = sas[n].event
  /\ sas'[n].event_delay = sas[n].event_delay
  /\ sas'[n].rpacket = sas[n].rpacket

(* C20: when a packet's handler returns STF_IGNORE, the SA the packet was  *)
(* routed to still exists, in the same state, with the same armed timer    *)
(* and the same rpacket as before the packet arrived.                      *)
C20_IgnoreChangesNothing ==
  [][ \A n \in Serials :
        IgnoredFor(n) =>
          /\ sas'[n] # NoState
          /\ sas'[n].kind = sas[n].kind
          /\ SameTimerAndPacket(n) ]_vars

(* the cases in which the SA is deleted although the result is STF_IGNORE: *)
(* a Delete payload that names the SA, and the informational handler's     *)
(* reaction to PAYLOAD_MALFORMED and CISCO_LOAD_BALANCE                    *)
DeletedByDelete(n) ==
  /\ HasPayload(last'.pkt, "D")
  /\ last'.pkt.enc
  /\ last'.pkt.ndata = "SELF"
  /\ IS_ISAKMP_SA_ESTABLISHED(sas[n].kind)

LoadBalanceFor(n) ==
  /\ last'.handler = "informational"
  /\ HasPayload(last'.pkt, "N")
  /\ last'.pkt.ntype = "CISCO_LOAD_BALANCE"
  /\ last'.pkt.ndata = "PEER"
  /\ IS_ISAKMP_SA_ESTABLISHED(sas[n].kind)

MalformedFor(n) ==
  /\ last'.handler = "informational"
  /\ HasPayload(last'.pkt, "N")
  /\ last'.pkt.ntype = "PAYLOAD_MALFORMED"

(* C20, amended: when a packet's handler returns STF_IGNORE, the SA the    *)
(* packet was routed to is deleted only by a Delete payload naming it, or  *)
(* by the informational handler on PAYLOAD_MALFORMED (too many malformed   *)
(* payloads) or CISCO_LOAD_BALANCE (established SA, new peer address       *)
(* given), and on such a CISCO_LOAD_BALANCE it always is; an SA that is    *)
(* not deleted keeps its armed timer and rpacket, and its state but for    *)
(* the demultiplexer's own promotion.                                      *)
C20_IgnoreDeletesOnlyOnNotification ==
  [][ \A n \in Serials :
        IgnoredFor(n) =>
          /\ sas'[n] = NoState =>
                DeletedByDelete(n) \/ LoadBalanceFor(n) \/ MalformedFor(n)
          /\ LoadBalanceFor(n) /\ ~ DeletedByDelete(n) => sas'[n] = NoState
          /\ sas'[n] # NoState =>
                /\ sas'[n].kind = sas[n].kind \/ DemuxPromotion(n)
                /\ SameTimerAndPacket(n) ]_vars

(* the informational handler deleted the established ISAKMP SA on a        *)
(* CISCO_LOAD_BALANCE notification and returned STF_IGNORE                 *)
C20_DeletedOnLoadBalance ==
  /\ last.handler = "informational"
  /\ last.result = STF_IGNORE
  /\ last.pkt.ntype = "CISCO_LOAD_BALANCE"
  /\ last.routed # 0
  /\ sas[last.routed] = NoState
  /\ \E n \in Serials : sas[n] # NoState /\ sas[n].icookie = LCookie

(***************************************************************************)
(* Claims about busy SAs and crypto helpers.                               *)
(***************************************************************************)
(* the helper requests in flight for a state: the one a suspended          *)
(* transition waits for, and the DH computation running between states     *)
HelpersInFlight(st) ==
  (IF st.offloaded_task THEN 1 ELSE 0) + (IF st.dh_background THEN 1 ELSE 0)

(* the dispatcher's busy: a suspended digest or a helper request that a    *)
(* transition waits for                                                    *)
WaitingForHelper(st) == st.suspended_md # NoMd \/ st.offloaded_task

(* the step handles a datagram that the demultiplexer routed to SA n *)
RoutedTo(n) ==
  /\ Exists(sas, n)
  /\ last'.by = "packet"
  /\ last'.routed = n

(* the datagram was dropped: no handler, nothing transmitted, no state     *)
(* object touched                                                          *)
DroppedAsBusy ==
  /\ last'.outcome = "busy"
  /\ last'.handler = NULL
  /\ sent' = << >>
  /\ sas' = sas

(* the datagram was dropped for SA n: no handler was invoked for it and   *)
(* its digest was not kept for later either                                *)
DroppedUnhandled(n) ==
  /\ last'.handler = NULL
  /\ sas'[n].suspended_md = sas[n].suspended_md

OneHelperEach(S) == \A n \in Serials : Exists(S, n) => HelpersInFlight(S[n]) <= 1

UndecryptableFor(n) ==
  /\ RoutedTo(n)
  /\ last'.pkt.enc
  /\ ~ sas[n].skeyid_calculated

(* C22: an SA holds one suspended digest at most, and when an encrypted    *)
(* packet that cannot be decrypted yet arrives while a digest is parked    *)
(* on the SA, the newer digest takes the place of the older one.           *)
C22_NewestDigestWins ==
  [][ \A n \in Serials :
        UndecryptableFor(n) /\ sas[n].suspended_md # NoMd
        => /\ Exists(sas', n)
           /\ sas'[n].suspended_md.pkt = last'.pkt ]_vars

(* C23: in every reachable state an SA with a suspended digest has exactly *)
(* one helper request in flight.                                           *)
C23_ParkedOnlyWithHelper ==
  \A n \in Serials :
    Exists(sas, n) /\ sas[n].suspended_md # NoMd => HelpersInFlight(sas[n]) = 1


(***************************************************************************)
(* Claims about the notifications the informational handler acts on.       *)
(***************************************************************************)
(* the step hands a notification of the given type to the informational    *)
(* handler for SA n; n = 0 when the message belongs to no SA               *)
NotifiedFor(n, ntype) ==
  /\ last'.routed = n
  /\ n # 0 => Exists(sas, n)
  /\ last'.handler = "informational"
  /\ HasPayload(last'.pkt, "N")
  /\ last'.pkt.ntype = ntype

(* C24: on a PAYLOAD_MALFORMED notification for an existing SA the         *)
(* received-malformed counter goes up by one, and the SA is deleted if and *)
(* only if, with the new count, sent + received exceeds                    *)
(* MAXIMUM_MALFORMED_NOTIFY and received exceeds half of it.               *)
C24_DeletedWhenReceivedOverHalf ==
  [][ \A n \in Serials :
        NotifiedFor(n, "PAYLOAD_MALFORMED") =>
          /\ sas'[n] = NoState <=>
                /\ last'.malformed_sent + sas[n].malformed_received + 1
                     > MAXIMUM_MALFORMED_NOTIFY
                /\ sas[n].malformed_received + 1 > MAXIMUM_MALFORMED_NOTIFY \div 2
          /\ sas'[n] # NoState =>
                sas'[n].malformed_received = sas[n].malformed_received + 1 ]_vars

(* the SA is established and the notification data ends in a usable IPv4   *)
(* address                                                                 *)
RedirectAccepted(n) ==
  /\ n # 0
  /\ IS_ISAKMP_SA_ESTABLISHED(sas[n].kind)
  /\ last'.pkt.ndata \notin { "NONE", "ANY" }

(* the SA is gone, the connection names the new peer, and a new exchange   *)
(* has been initiated                                                      *)
Redirected(n) ==
  /\ sas'[n] = NoState
  /\ conn'.that_host_addr = last'.pkt.ndata
  /\ nserial' = nserial + 1
  /\ sas'[nserial'].kind \in { "STATE_MAIN_I1", "STATE_AGGR_I1" }
  /\ sas'[nserial'].event = EVENT_RETRANSMIT

NothingRedirected(n) ==
  /\ n # 0 => sas'[n] # NoState
  /\ conn' = conn
  /\ nserial' = nserial

(* C25: a CISCO_LOAD_BALANCE notification deletes the SA, rewrites the     *)
(* connection's peer address and initiates again exactly when the SA       *)
(* exists, is established, and the notification data has four octets or    *)
(* more that do not end in the all-zero address; otherwise the SA stays,   *)
(* the connection is unchanged and nothing is initiated.                   *)
C25_LoadBalanceRedirects ==
  [][ \A n \in 0 .. MaxSerial :
        NotifiedFor(n, "CISCO_LOAD_BALANCE") =>
          IF RedirectAccepted(n) THEN Redirected(n) ELSE NothingRedirected(n) ]_vars

(* the connection was redirected to the peer the notification named *)
C25_RedirectedToNewPeer ==
  /\ last.handler = "informational"
  /\ last.pkt.ntype = "CISCO_LOAD_BALANCE"
  /\ last.routed # 0
  /\ sas[last.routed] = NoState
  /\ conn.that_host_addr = "PEER"
  /\ sas[nserial] # NoState
  /\ sas[nserial].kind = "STATE_MAIN_I1"


(***************************************************************************)
(* Claims about Mode Config messages that start an exchange.               *)
(***************************************************************************)
(* the step's datagram is a Mode Config message with cookies and a message *)
(* id that no state object has, for the established ISAKMP SA n            *)
ModeCfgStartsOn(n) ==
  /\ Exists(sas, n)
  /\ last'.by = "packet"
  /\ last'.pkt.xchg = "MODE_CFG"
  /\ ~ IsFragment(last'.pkt)
  /\ last'.pkt.icookie # 0 /\ last'.pkt.rcookie # 0 /\ last'.pkt.msgid # 0
  /\ find_v1_info_state(sas, last'.pkt.icookie, last'.pkt.rcookie,
                        last'.pkt.msgid) = 0
  /\ find_v1_info_state(sas, last'.pkt.icookie, last'.pkt.rcookie, 0) = n
  /\ IS_ISAKMP_SA_ESTABLISHED(sas[n].kind)

(* the role and state mappings to XAUTH_R1, XAUTH_I0, MODE_CFG_R0 and      *)
(* MODE_CFG_R1                                                             *)
RoleMapping(kind) ==
  \/ conn.xauth_server /\ kind = "STATE_XAUTH_R1" /\ conn.xauth_ack_msgid
  \/ conn.xauth_client /\ IS_PHASE1(kind)
  \/ conn.xauth_client /\ kind = "STATE_XAUTH_I1"
  \/ conn.modecfg_server /\ IS_PHASE1(kind)
  \/ conn.modecfg_client /\ IS_PHASE1(kind)

(* C26: a Mode Config message that starts a new exchange on an established *)
(* SA and matches none of the role/state mappings is rejected with an      *)
(* UNSUPPORTED_EXCHANGE_TYPE notification and invokes no handler.          *)
C26_UnmappedModeCfgNotified ==
  [][ \A n \in Serials :
        ModeCfgStartsOn(n) /\ ~ RoleMapping(sas[n].kind) =>
          /\ last'.handler = NULL
          /\ "UNSUPPORTED_EXCHANGE_TYPE" \in Notes(sent') ]_vars

(* the part of C26 the code provides: the message is turned away before a *)
(* handler is chosen, and no state object changes                         *)
C26_UnmappedModeCfgDropped ==
  [][ \A n \in Serials :
        ModeCfgStartsOn(n) =>
          IF RoleMapping(sas[n].kind)
          THEN last'.outcome # "reject" \/ last'.why # "demux"
          ELSE /\ last'.outcome = "reject" /\ last'.why = "demux"
               /\ last'.handler = NULL
               /\ sas' = sas ]_vars


(***************************************************************************)
(* Claims about the release of queued Quick Mode negotiations.             *)
(***************************************************************************)
ReplaceClass == { EVENT_SA_REPLACE, EVENT_v1_SA_REPLACE_IF_USED, EVENT_SA_EXPIRE }

(* unpend found the transition of this call applied to the ISAKMP SA: the  *)
(* new state, the received packet, the transition, the reply and the timer *)
CommittedBeforeRelease(ev, out) ==
  LET smc == v1_state_microcode_table[ev.smc]
      r == ev.released
  IN /\ ev.by = "packet"
     /\ ev.result = STF_OK
     /\ SMF_RELEASE_PENDING_P2 \in smc.flags
     /\ r.kind = smc.next_state
     /\ r.rpacket = ev.pkt
     /\ r.last_transition = ev.smc
     /\ r.event \in ReplaceClass
     /\ r.nsent = IF SMF_REPLY \in smc.flags THEN 1 ELSE 0
     /\ \A i \in 1 .. r.nsent : out[i].what = "reply" /\ out[i].st = ev.st
     /\ Len(out) = r.nsent + Len(r.queue)
     /\ \A i \in r.nsent + 1 .. Len(out) :
          out[i].what = "request" /\ out[i].note.xchg = "QUICK"

(* state object n is a Quick Mode initiator created by this step *)
QuickStarts(n) ==
  /\ sas[n] = NoState
  /\ sas'[n] # NoState
  /\ sas'[n].kind = "STATE_QUICK_I1"

ParentEstablished(n) ==
  /\ Exists(sas', sas'[n].clonedfrom)
  /\ IS_ISAKMP_SA_ESTABLISHED(sas'[sas'[n].clonedfrom].kind)
  /\ last'.by = "packet" =>
       /\ last'.released.queue # << >>
       /\ last'.released.reported = "RC_SUCCESS"
       /\ last'.st = sas'[n].clonedfrom

(* C27: Quick Mode negotiations queued on an ISAKMP SA are released only   *)
(* after the transition that releases them (one with RELEASE_PENDING_P2)   *)
(* has been applied: the SA is in its new state, the received packet and   *)
(* the transition are recorded, the reply, if any, is sent and the timer   *)
(* is scheduled.  On the initiator no Quick Mode starts before its ISAKMP  *)
(* SA has been reported established.                                       *)
C27_ReleasedAfterCommit ==
  [][ /\ last'.released.queue # << >> => CommittedBeforeRelease(last', sent')
      /\ \A n \in Serials : QuickStarts(n) => ParentEstablished(n) ]_vars

(* two queued negotiations were released by the last Main Mode reply *)
C27_TwoReleased ==
  /\ last.by = "packet"
  /\ Len(last.released.queue) = 2
  /\ sas[last.st].kind = "STATE_MAIN_I4"
  /\ sas[last.st].pending = << >>
  /\ Cardinality({ n \in Serials : /\ sas[n] # NoState
                                    /\ sas[n].kind = "STATE_QUICK_I1"
                                    /\ sas[n].clonedfrom = last.st }) = 2


(***************************************************************************)
(* Claims about the loss-free Main Mode exchange.                          *)
(***************************************************************************)
MainModeMoves ==
  { << NULL, "STATE_MAIN_R1" >>, << "STATE_MAIN_R1", "STATE_MAIN_R2" >>,
    << "STATE_MAIN_R2", "STATE_MAIN_R3" >>,
    << NULL, "STATE_MAIN_I1" >>, << "STATE_MAIN_I1", "STATE_MAIN_I2" >>,
    << "STATE_MAIN_I2", "STATE_MAIN_I3" >>, << "STATE_MAIN_I3", "STATE_MAIN_I4" >> }

IsMainModeMessage(t) ==
  IF t.what \in { "request", "reply" } THEN t.note.xchg = "IDPROT" ELSE FALSE

MainModeSent(out) ==
  Cardinality({ i \in DOMAIN out : IsMainModeMessage(out[i]) })

(* state object n is an ISAKMP SA that this step created or moved *)
MainModeMoved(n) ==
  /\ sas'[n].kind # sas[n].kind
  /\ sas'[n].kind # "STATE_QUICK_I1"

(* one step of the exchange: the SA moves to the next state of its role,   *)
(* the responder's first state is entered from MAIN_R0, and the step       *)
(* sends the one Main Mode message that follows, none after the sixth      *)
InLockstep(n) ==
  /\ << sas[n].kind, sas'[n].kind >> \in MainModeMoves
  /\ sas'[n].kind = "STATE_MAIN_R1" => last'.from_state = "STATE_MAIN_R0"
  /\ MainModeSent(sent') = IF sas'[n].kind = "STATE_MAIN_I4" THEN 0 ELSE 1

Established(n, kind) ==
  /\ n # 0
  /\ sas[n].kind = kind
  /\ sas[n].event \in ReplaceClass
  /\ sas[n].g_armed # 0

BothEstablished ==
  /\ Established(OwnIsakmpSa(sas), "STATE_MAIN_I4")
  /\ Established(PeersIsakmpSa(sas), "STATE_MAIN_R3")

(* C28: in a loss-free Main Mode exchange in which every transition        *)
(* function answers OK the responder passes MAIN_R0, MAIN_R1, MAIN_R2,     *)
(* MAIN_R3 and the initiator MAIN_I1, MAIN_I2, MAIN_I3, MAIN_I4, with      *)
(* pre-shared keys and with signatures; each of the six messages moves one *)
(* side one state on, no notification is sent, and in the end both sides   *)
(* are established (MAIN_I4, MAIN_R3) with a replace-class timer armed.    *)
C28_LossFreeMainModeCompletes ==
  /\ [][ /\ \A n \in Serials : MainModeMoved(n) => InLockstep(n)
         /\ (\A n \in Serials : ~ MainModeMoved(n)) => MainModeSent(sent') = 0
         /\ Notes(sent') = {} ]_vars
  /\ <>[] BothEstablished

(* both sides are established after an exchange authenticated by RSA      *)
(* signatures, and the queued Quick Mode has started                       *)
C28_EstablishedWithSignatures ==
  /\ BothEstablished
  /\ conn.auth = OAKLEY_RSA_SIG
  /\ \E n \in Serials : sas[n].kind = "STATE_QUICK_I1"


(***************************************************************************)
(* Claims about peer ID decoding.                                          *)
(***************************************************************************)
PeerIdDecoded == last'.by = "peer_id"

(* the SA is bound to the connection refinement found, or to an instance   *)
(* of it made for the peer                                                 *)
Rebound ==
  /\ connections'.cur # connections.cur
  /\ last'.decoded.refined \notin { 0, connections.cur }
  /\ \/ connections'.cur = last'.decoded.refined
     \/ /\ connections.table[last'.decoded.refined].kind = "CK_TEMPLATE"
        /\ connections'.cur = Len(connections.table) + 1
        /\ connections'.table[connections'.cur].kind = "CK_INSTANCE"

PresentLives(st) ==
  { t.life : t \in { x \in { st.st_ah, st.st_esp, st.st_ipcomp } : x.present } }

Least(set) == CHOOSE l \in set : \A m \in set : l <= m

(* the lifetime in seconds that the armed event stands for: the delay plus *)
(* the margin that was subtracted from it, if any                          *)
LifetimeUsed(st, marg) ==
  IF st.event = EVENT_SA_EXPIRE
  THEN st.event_delay \div 1000
  ELSE st.event_delay \div 1000 + marg

(* state object n is a Child SA whose transition of this step arms the     *)
(* replace event                                                           *)
ChildReplaceArmed(n) ==
  /\ last'.by = "packet"
  /\ last'.result = STF_OK
  /\ last'.st = n
  /\ last'.smc # 0
  /\ v1_state_microcode_table[last'.smc].timeout_event = EVENT_SA_REPLACE
  /\ sas'[n] # NoState
  /\ IS_CHILD_SA(sas'[n])
  /\ IS_IPSEC_SA_ESTABLISHED_KIND(sas'[n].kind)

(* C30: for the SA_REPLACE event of a Child SA the lifetime from which the *)
(* rekey margin is subtracted is the least of the connection's             *)
(* sa_ipsec_life and the negotiated lifetimes of those of AH, ESP and      *)
(* IPCOMP that are present in the SA.                                      *)
C30_ChildLifetimeIsMinimum ==
  [][ \A n \in Serials :
        ChildReplaceArmed(n) =>
          /\ sas'[n].event \in ReplaceClass
          /\ LifetimeUsed(sas'[n], RekeyMargin(v1_state_microcode_table[last'.smc]))
               = Least({ conn.sa_ipsec_life } \cup PresentLives(sas'[n])) ]_vars

(* a Child SA with AH, ESP and IPCOMP whose IPCOMP lifetime, the least of  *)
(* the four, set the replace event                                         *)
C30_IpcompLimitsLifetime ==
  \E n \in Serials :
    /\ sas[n] # NoState
    /\ sas[n].kind = "STATE_QUICK_R2"
    /\ sas[n].st_ah.present /\ sas[n].st_esp.present /\ sas[n].st_ipcomp.present
    /\ sas[n].st_ipcomp.life = 600
    /\ sas[n].st_ah.life = 28800 /\ sas[n].st_esp.life = 28800
    /\ conn.sa_ipsec_life = 28800
    /\ sas[n].event = EVENT_SA_REPLACE
    /\ sas[n].event_delay = (600 - 270) * 1000


(***************************************************************************)
(* Claims about the lifetime of an ISAKMP SA and about DONT_REKEY.         *)
(***************************************************************************)
(* the transition of this step armed the replace event of state object n  *)
ReplaceArmed(n) ==
  /\ last'.by = "packet"
  /\ last'.result = STF_OK
  /\ last'.st = n
  /\ last'.smc # 0
  /\ v1_state_microcode_table[last'.smc].timeout_event = EVENT_SA_REPLACE
  /\ sas'[n] # NoState

IkeReplaceArmed(n) ==
  /\ ReplaceArmed(n)
  /\ IS_PHASE1(sas'[n].kind) \/ IS_PHASE15(sas'[n].kind)

(* C31 as stated: for an SA_REPLACE event on a Phase-1 SA the lifetime     *)
(* used is the negotiated oakley.life whenever DONT_REKEY is set or the    *)
(* negotiated lifetime is longer than the local sa_ike_life; otherwise it  *)
(* is the local sa_ike_life.                                               *)
C31_PeerLifetimeWhenLonger ==
  [][ \A n \in Serials :
        IkeReplaceArmed(n) =>
          /\ sas'[n].event \in ReplaceClass
          /\ LifetimeUsed(sas'[n], RekeyMargin(v1_state_microcode_table[last'.smc]))
               = IF conn.dont_rekey \/ sas'[n].oakley_life > conn.sa_ike_life
                 THEN sas'[n].oakley_life
                 ELSE conn.sa_ike_life ]_vars

(* C31: for an SA_REPLACE event on a Phase-1 SA the lifetime used is the   *)
(* negotiated oakley.life whenever DONT_REKEY is set or the negotiated     *)
(* lifetime is not longer than the local sa_ike_life; otherwise, when the  *)
(* peer dictated a longer one, it is the local sa_ike_life.                *)
C31_PeerLifetimeWhenNotLonger ==
  [][ \A n \in Serials :
        IkeReplaceArmed(n) =>
          /\ sas'[n].event \in ReplaceClass
          /\ LifetimeUsed(sas'[n], RekeyMargin(v1_state_microcode_table[last'.smc]))
               = IF conn.dont_rekey \/ sas'[n].oakley_life <= conn.sa_ike_life
                 THEN sas'[n].oakley_life
                 ELSE conn.sa_ike_life ]_vars

(* a responder's ISAKMP SA whose peer proposed 28800 seconds against the   *)
(* connection's 3600: the event stands for the connection's lifetime       *)
C31_LongerProposalCutDown ==
  \E n \in Serials :
    /\ sas[n] # NoState
    /\ sas[n].kind = "STATE_MAIN_R3"
    /\ ~ conn.dont_rekey
    /\ sas[n].oakley_life = 28800
    /\ conn.sa_ike_life = 3600
    /\ sas[n].event = EVENT_SA_REPLACE
    /\ sas[n].event_delay = (3600 - 270) * 1000

(* the lifetime the peer dictated, if it dictated one *)
Dictated(st) ==
  IF IS_PHASE1(st.kind) \/ IS_PHASE15(st.kind)
  THEN { st.oakley_life }
  ELSE { l \in PresentLives(st) :
           l <= conn.sa_ipsec_life /\ \A m \in PresentLives(st) : l <= m }

LandsInXauthI1(n) ==
  /\ ~ crashed'
  /\ last'.result = STF_OK
  /\ last'.st = n
  /\ last'.smc # 0
  /\ v1_state_microcode_table[last'.smc].next_state = "STATE_XAUTH_I1"
  /\ sas'[n] # NoState

(* XAUTH is done and no Mode Config follows *)
XauthOnly(st) ==
  conn.xauth_client /\ ~ conn.modecfg_client /\ st.xauth_client_done

(* C33: an OK transition that lands in XAUTH_I1 on a connection that is an *)
(* XAUTH client, not a Mode Config client, with xauth_client_done set,     *)
(* leaves the SA in the established state (AGGR_I2 in Aggressive Mode,     *)
(* else MAIN_I4) with the Phase 1.5 message id 0 and the replace event     *)
(* computed from the ISAKMP lifetimes in place of the retransmit event;    *)
(* no such SA is ever in XAUTH_I1.                                         *)
C33_XauthOnlyJumpsToEstablished ==
  [][ \A n \in Serials :
        /\ LandsInXauthI1(n) /\ XauthOnly(sas'[n]) =>
             /\ sas'[n].kind = IF conn.aggressive THEN "STATE_AGGR_I2"
                                                  ELSE "STATE_MAIN_I4"
             /\ sas'[n].phase15 = v1_MAINMODE_MSGID
             /\ sas'[n].event \in ReplaceClass
             /\ LifetimeUsed(sas'[n],
                             RekeyMargin(v1_state_microcode_table[last'.smc]))
                  = Least({ conn.sa_ike_life, sas'[n].oakley_life })
        /\ sas'[n] # NoState /\ XauthOnly(sas'[n]) =>
             sas'[n].kind # "STATE_XAUTH_I1" ]_vars

(* an Aggressive Mode SA that the XAUTH status moved from XAUTH_I0 to      *)
(* AGGR_I2 and whose replace event is armed                                *)
C33_JumpedToAggrI2 ==
  /\ ~ crashed
  /\ conn.aggressive
  /\ last.result = STF_OK
  /\ last.smc # 0
  /\ v1_state_microcode_table[last.smc].next_state = "STATE_XAUTH_I1"
  /\ last.st # 0
  /\ sas[last.st] # NoState
  /\ sas[last.st].xauth_client_done
  /\ sas[last.st].kind = "STATE_AGGR_I2"
  /\ sas[last.st].phase15 = v1_MAINMODE_MSGID
  /\ sas[last.st].event = EVENT_SA_REPLACE


(***************************************************************************)
(* Claims about the state object a handler result is applied to.           *)
(***************************************************************************)
(* C34: whenever the dispatcher applies a handler result other than        *)
(* SUSPEND or IGNORE the message digest refers to a state object that      *)
(* exists: the assertion st != NULL of complete_v1_state_transition holds. *)
C34_ResultAppliedToLiveSA ==
  last.result \notin { NULL, STF_SUSPEND, STF_IGNORE } =>
    /\ last.st # 0
    /\ last.kind # NULL
    /\ last.why # "passert"

(* the same for messages that the self-deletion did not take the SA from:  *)
(* only an initial message whose handler fails without a state object is   *)
(* left                                                                    *)
C34_OnlySelfDeleteOrEarlyFailure ==
  last.result \notin { NULL, STF_SUSPEND, STF_IGNORE } /\ last.st = 0 =>
    \/ last.routed # 0 /\ HasPayload(last.pkt, "D") /\ last.pkt.ndata = "SELF"
    \/ last.routed = 0 /\ last.handler \in CreatingPhase1
                       /\ last.result \in FailResults \cup { STF_FATAL }


(***************************************************************************)
(* Claims about the reassembler after the message is processed.            *)
(***************************************************************************)
(* C35: when the reassembler, having handed the completed message to the   *)
(* demultiplexer, releases the fragment list and sets seen_fragments, the  *)
(* SA that owned the fragments still exists.                               *)
C35_FragmentOwnerSurvives ==
  last.whole => last.frag_st # 0 /\ sas[last.frag_st] # NoState /\ ~ last.ub

(* the ways the owner goes in the model: a fatal result, the Delete        *)
(* payload, the malformed-notification limit                               *)
C35_OwnerGoneOnlyByDeletion ==
  last.whole /\ sas[last.frag_st] = NoState =>
    \/ last.result = STF_FATAL
    \/ HasPayload(ParseHeader(last.reassembled), "D")
    \/ ParseHeader(last.reassembled).ntype = "PAYLOAD_MALFORMED"


(***************************************************************************)
(* Claims about the timer kinds of the microcode table.                    *)
(***************************************************************************)
(* C36: completing an OK transition never reaches bad_case on the timer    *)
(* kind; an entry that declares EVENT_NULL completes with no new timer.    *)
C36_OKNeverBadCase ==
  last.result = STF_OK => last.why # "bad_case" /\ ~ crashed

(* bad_case is reached only from entries that declare EVENT_NULL; every    *)
(* other entry's OK completion arms a timer                                *)
C36_BadCaseOnlyOnNullEvent ==
  last.result = STF_OK /\ last.smc # 0 =>
    (last.why = "bad_case" <=> LastEntry.timeout_event = EVENT_NULL)


(***************************************************************************)
(* Claims about repeated payloads.                                         *)
(***************************************************************************)
Occurrences(chain, np) == Cardinality({ i \in DOMAIN chain : chain[i] = np })

(* the payload types an entry requires and does not also allow any number  *)
(* of times                                                                *)
OnceOnly(smc) == smc.req_payloads \ (smc.opt_payloads \cup AlwaysAccepted)

(* C37: in every message that reaches the handler each payload type that   *)
(* is required by the selected transition, is not optional for it and is   *)
(* not one of VID, N, D, CR, CERT occurs exactly once.                     *)
C37_RequiredPayloadOnce ==
  last.handler # NULL /\ last.smc # 0 =>
    \A np \in OnceOnly(LastEntry) : Occurrences(last.pkt.chain, np) = 1

(* a Quick Mode message with two SA payloads, turned away by the decoder   *)
(* on the established ISAKMP SA                                            *)
C37_SecondSARejected ==
  /\ last.pkt.xchg = "QUICK"
  /\ last.pkt.chain = << "HASH", "SA", "SA", "NONCE" >>
  /\ last.from_state = "STATE_QUICK_R0"
  /\ last.outcome = "reject"
  /\ last.why = "decode"
  /\ last.handler = NULL
  /\ last.routed # 0
  /\ sas[last.routed] # NoState
  /\ sas[last.routed].kind = "STATE_MAIN_R3"


(***************************************************************************)
(* Claims about plaintext Informational messages.                          *)
(***************************************************************************)
(* the SA an Informational message is routed to, 0 when there is none *)
InfoOwner(S, pkt) ==
  LET st1 == find_v1_info_state(S, pkt.icookie, pkt.rcookie, v1_MAINMODE_MSGID)
  IN IF st1 # 0 THEN st1
     ELSE find_state_ikev1_init(S, pkt.icookie, v1_MAINMODE_MSGID)

PlainToAuthenticated ==
  /\ last'.by = "packet"
  /\ last'.pkt.xchg = "INFO"
  /\ ~ last'.pkt.enc
  /\ InfoOwner(sas, last'.pkt) # 0
  /\ IS_ISAKMP_AUTHENTICATED(sas[InfoOwner(sas, last'.pkt)].kind)

NotReady(st) ==
  \/ conn.xauth_server /\ st.doing_xauth
  \/ conn.xauth_client /\ ~ st.xauth_client_done
  \/ conn.modecfg_client /\ ~ st.modecfg_vars_set
  \/ conn.modecfg_server /\ ~ conn.modecfg_pull /\ ~ st.modecfg_vars_set

(* the transition of the last step completed with STF_OK on ISAKMP SA n *)
CompletedOK(n) ==
  /\ last'.by = "packet"
  /\ last'.result = STF_OK
  /\ last'.smc # 0
  /\ last'.st = n
  /\ Exists(sas, n)
  /\ Exists(sas', n)
  /\ IS_PHASE1(sas'[n].kind) \/ IS_PHASE15(sas'[n].kind)

(* C39: an OK transition releases no pending Quick Mode negotiation while  *)
(* the IKE SA is not ready: when the connection is XAUTH server and the SA *)
(* is doing XAUTH, XAUTH client and not yet authenticated, or Mode Config  *)
(* client or push-mode Mode Config server without its variables set, the   *)
(* queue stays as it was and no Quick Mode SA is started, whatever the     *)
(* flags of the transition.                                                *)
C39_NoReleaseBeforeReady ==
  [][\A n \in Serials :
       CompletedOK(n) /\ NotReady(sas'[n]) =>
         /\ last'.released = NoRelease
         /\ sas'[n].pending = sas[n].pending
         /\ \A q \in Serials : Exists(sas', q) /\ ~ Exists(sas, q) =>
                                  sas'[q].kind # "STATE_QUICK_I1" ]_vars

(* the last Main Mode reply came in on an XAUTH client through a           *)
(* transition with RELEASE_PENDING_P2 and the queued negotiations are      *)
(* still queued                                                            *)
C39_XauthClientKeepsQueue ==
  /\ last.by = "packet"
  /\ last.result = STF_OK
  /\ last.smc # 0
  /\ SMF_RELEASE_PENDING_P2 \in LastEntry.flags
  /\ conn.xauth_client
  /\ last.st # 0
  /\ sas[last.st] # NoState
  /\ sas[last.st].kind = "STATE_MAIN_I4"
  /\ ~ sas[last.st].xauth_client_done
  /\ Len(sas[last.st].pending) = 2
  /\ last.released = NoRelease


(***************************************************************************)
(* Claims about peer ID decoding on the initiator.                         *)
(***************************************************************************)
InitiatorDecoded == last'.by = "initiator_peer_id"

(* the ID the connection expects when decoding starts *)
ConfiguredId == connections.table[connections.cur].that_id

(* C40: on the initiator peer ID decoding succeeds only if the peer's ID   *)
(* equals the ID the connection expects, or the connection expects         *)
(* ID_FROMCERT and the peer's ID is a distinguished name; when the         *)
(* connection expects ID_FROMCERT a peer ID of any other kind fails.       *)
C40_InitiatorRequiresConfiguredId ==
  [][ InitiatorDecoded =>
        /\ last'.decoded.ok =>
              \/ same_id(ConfiguredId, last'.decoded.in.peer)
              \/ ConfiguredId = "ID_FROMCERT" /\ last'.decoded.in.peer_is_dn
        /\ ConfiguredId = "ID_FROMCERT" /\ ~ last'.decoded.in.peer_is_dn =>
              ~ last'.decoded.ok ]_vars

(* what the function does: with no alternative name in play it succeeds    *)
(* exactly when the ID is extracted, the certificate is not bad and does   *)
(* not contradict the peer's ID, and the connection expects the peer's ID  *)
(* or ID_FROMCERT, whatever the kind of the peer's ID.                     *)
C40_FromcertAcceptsAnyKind ==
  [][ InitiatorDecoded /\ ~ last'.decoded.in.peer_alt_id =>
        ( last'.decoded.ok <=>
            /\ last'.decoded.in.extract_ok
            /\ last'.decoded.in.cert \in { "NONE", last'.decoded.in.peer }
            /\ ConfiguredId \in { last'.decoded.in.peer, "ID_FROMCERT" } ) ]_vars


=============================================================================
